---------------------------- MODULE PegFractions ----------------------------
(***************************************************************************)
(* Fractions of a coin and the peg level that splits them into reserve     *)
(* and liquid parts (src/peg/pegfractions.cpp, src/peg/peglevel.cpp).      *)
(*                                                                         *)
(* Fractions in the STD form are a function from 0..PegSize-1 to amounts.  *)
(* Amounts are far from the limits of int64, and the products of RatioPart *)
(* are computed in 128 bits when they do not fit: integers are exact here. *)
(* The operators are used on fractions that are nowhere negative.          *)
(***************************************************************************)
EXTENDS Sums

CONSTANT PegSize     \* PEG_SIZE

ASSUME PegSizeAssumption == PegSize \in Nat \ {0}

Indexes == 0..(PegSize - 1)
Fractions == [Indexes -> Nat]

Zero == [i \in Indexes |-> 0]
Plus(a, b) == [i \in Indexes |-> a[i] + b[i]]
Minus(a, b) == [i \in Indexes |-> a[i] - b[i]]

\* The sum of f[from], ..., f[to - 1]
Between(f, from, to) == SumOf(f, from..(to - 1))
Total(f) == Between(f, 0, PegSize)
Low(f, supply) == Between(f, 0, supply)
High(f, supply) == Between(f, supply, PegSize)
HighPart(f, supply) == [i \in Indexes |-> IF i >= supply THEN f[i] ELSE 0]
LowPart(f, supply) == [i \in Indexes |-> IF i < supply THEN f[i] ELSE 0]
IsPositive(f) == \A i \in Indexes : f[i] >= 0

Least(a, b) == IF a < b THEN a ELSE b

---------------------------------------------------------------------------
(* Shares of an amount *)

\* RatioPart of pegdata.cpp
RatioOf(value, part, total) == IF part = 0 \/ total = 0 THEN 0 ELSE (value * part) \div total

\* Mutant: what rounding lost is not given back.
RoundedRatioPart(f, part) ==
  LET total == Total(f)
  IN  IF part > total THEN f ELSE [i \in Indexes |-> RatioOf(f[i], part, total)]

\* Mutant: rounding is made up for without asking whether the fraction has more.
BlindRatioPart(f, part) ==
  LET total == Total(f)
      share == [i \in Indexes |-> RatioOf(f[i], part, total)]
      missing == part - Total(share)
  IN  IF part > total THEN f ELSE [i \in Indexes |-> share[i] + IF i < missing THEN 1 ELSE 0]

\* CFractions::RatioPart: the share part/total of every fraction, rounded down;
\* the lowest fractions that can give one more make up for the rounding.  With
\* no negative fraction one round of the adjusting loop is always enough.
RatioPart(f, part) ==
  LET total == Total(f)
      share == [i \in Indexes |-> RatioOf(f[i], part, total)]
      more == {i \in Indexes : share[i] < f[i]}
      missing == part - Total(share)
  IN  IF part > total THEN f
      ELSE [i \in Indexes |->
              share[i] + IF i \in more /\ Cardinality({j \in more : j < i}) < missing THEN 1 ELSE 0]

\* CFractions::MoveRatioPartTo: what is moved of an amount asked for
MovedPart(f, amount) == RatioPart(f, Least(amount, Total(f)))

---------------------------------------------------------------------------
(* Peg levels *)

PegLevels == [nCycle : Nat, nCyclePrev : Nat, nSupply : Indexes, nShift : Nat,
              nShiftLastPart : Nat, nShiftLastTotal : Nat]

Effective(level) == level.nSupply + level.nShift
Partial(level) == level.nShiftLastPart > 0 /\ level.nShiftLastTotal > 0

\* CPegLevel of an exchange that holds frInput for its users but frInput +
\* frDistortion in coins: if the coins have less liquid, the level is shifted
\* up by as many fractions as the missing liquid fills, the last one in part.
CPegLevel(cycle, cyclePrev, supply, frInput, frDistortion) ==
  LET nSupply == Least(supply, PegSize - 1)
      nLiquidDiff == High(frInput, nSupply) - High(Plus(frInput, frDistortion), nSupply)
      left(n) == nLiquidDiff - Between(frInput, nSupply, nSupply + n)
      stops(n) == \/ nSupply + n = PegSize
                  \/ left(n) = 0
                  \/ frInput[nSupply + n] > left(n)
      nShift == IF nLiquidDiff <= 0 THEN 0
                ELSE CHOOSE n \in 0..(PegSize - nSupply) : stops(n) /\ \A m \in 0..(n - 1) : ~stops(m)
  IN  [nCycle |-> cycle, nCyclePrev |-> cyclePrev, nSupply |-> nSupply, nShift |-> nShift,
       nShiftLastPart |-> IF nLiquidDiff <= 0 THEN 0 ELSE left(nShift),
       nShiftLastTotal |-> IF nLiquidDiff > 0 /\ nSupply + nShift < PegSize /\ left(nShift) > 0
                           THEN frInput[nSupply + nShift] ELSE 0]

LevelIsValid(level) == Effective(level) < PegSize

\* operator== of CPegLevel: the cycles are not compared.
SameLevel(a, b) ==
  /\ Effective(a) = Effective(b)
  /\ a.nShiftLastPart * b.nShiftLastTotal = b.nShiftLastPart * a.nShiftLastTotal

\* Mutant: rounded down
DownLastReserve(f, level) == RatioOf(f[Effective(level)], level.nShiftLastPart, level.nShiftLastTotal)

\* The part of the fraction at the level that is reserve, rounded up
LastReserve(f, level) ==
  LET v == f[Effective(level)]
      vpart == RatioOf(v, level.nShiftLastPart, level.nShiftLastTotal)
  IN  IF vpart < v THEN vpart + 1 ELSE vpart

\* LowPart by peg level; its total is Low by peg level
LevelLowPart(f, level) ==
  [i \in Indexes |-> IF i < Effective(level) THEN f[i]
                     ELSE IF i = Effective(level) /\ Partial(level) THEN LastReserve(f, level)
                     ELSE 0]

---------------------------------------------------------------------------
(* Balances *)

\* CPegData
PegDatas == [fractions : Fractions, peglevel : PegLevels, nReserve : Nat, nLiquid : Nat, nId : Nat]

\* CPegData::IsValid, which every call asks of its results
IsValid(pd) ==
  LET e == Effective(pd.peglevel)
  IN  /\ LevelIsValid(pd.peglevel)
      /\ pd.nReserve + pd.nLiquid = Total(pd.fractions)
      /\ IF Partial(pd.peglevel)
         THEN pd.nLiquid >= High(pd.fractions, e + 1) /\ pd.nReserve >= Low(pd.fractions, e)
         ELSE pd.nLiquid = High(pd.fractions, e) /\ pd.nReserve = Low(pd.fractions, e)

\* A balance whose parts are those of its peg level
Split(f, level, id) ==
  LET frReserve == LevelLowPart(f, level)
  IN  [fractions |-> f, peglevel |-> level, nReserve |-> Total(frReserve),
       nLiquid |-> Total(f) - Total(frReserve), nId |-> id]

\* Mutant: the last fraction counts as liquid with its reserve part.
WholeLiquidPart(pd, level) == HighPart(pd.fractions, Effective(level))

\* What of a balance moveliquid may move: the fractions above the level, and
\* of the partial one as much as the balance counts as liquid.
LiquidPart(pd, level) ==
  LET e == Effective(level)
      frLiquid == HighPart(pd.fractions, e + 1)
  IN  IF Partial(level) THEN [frLiquid EXCEPT ![e] = pd.nLiquid - Total(frLiquid)]
      ELSE HighPart(pd.fractions, e)

ReservePart(pd, level) ==
  LET e == Effective(level)
      frReserve == LowPart(pd.fractions, e)
  IN  IF Partial(level) THEN [frReserve EXCEPT ![e] = pd.nReserve - Total(frReserve)]
      ELSE frReserve
=============================================================================
