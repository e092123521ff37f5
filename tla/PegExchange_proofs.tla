------------------------- MODULE PegExchange_proofs -------------------------
(***************************************************************************)
(* Proofs about PegExchange, for any number of users and of fractions, any *)
(* holdings, amounts and levels.                                           *)
(***************************************************************************)
EXTENDS PegExchange, PegFractions_proofs

---------------------------------------------------------------------------
(* Facts used all over *)

\* What balances are made of.
LEMMA PegDataType ==
  ASSUME NEW pd \in PegDatas
  PROVE  /\ pd.fractions \in Fractions
         /\ \A i \in Indexes : pd.fractions[i] \in Nat
         /\ Total(pd.fractions) \in Nat
         /\ pd.nReserve \in Nat /\ pd.nLiquid \in Nat /\ pd.nId \in Nat
         /\ pd.peglevel \in PegLevels
<1>1. pd.fractions \in Fractions /\ \A i \in Indexes : pd.fractions[i] \in Nat
  BY DEF PegDatas, Fractions
<1> QED BY <1>1, TotalNat DEF PegDatas

---------------------------------------------------------------------------
(* updatepegbalances *)

\* How the last fraction is shared out: nothing is made or lost, nobody gets
\* more than the liquid he is due, and what the pool keeps in reserve for the
\* others is what this user was not due, and still there.
LEMMA PartLemma ==
  ASSUME NEW f \in Fractions, NEW p \in PegDatas, NEW level, GoodLevel(level), NEW part,
         part = IF Partial(level) THEN TakePartial(f, p, level) ELSE NothingPartial(p, level),
         NEW e, e = Effective(level)
  PROVE  /\ part.reserve \in Nat /\ part.liquid \in Nat /\ part.poolReserve \in Nat /\ part.poolLast \in Nat
         /\ part.reserve + part.liquid + part.poolLast = p.fractions[e]
         /\ part.reserve + part.liquid <= High(f, e)
         /\ Partial(level) => part.poolReserve = 0 \/ part.poolReserve + LastReserve(f, level) <= p.nReserve
         /\ Partial(level) /\ High(f, e) + part.poolReserve <= Total(p.fractions) =>
              part.poolReserve <= part.poolLast
         /\ ~Partial(level) => part.reserve = 0 /\ part.liquid = 0 /\ part.poolReserve = p.nReserve
<1>1. e \in Indexes /\ e \in 0..PegSize /\ e + 1 \in 0..PegSize
  BY EffectiveLemma
<1>2. /\ \A i \in Indexes : f[i] \in Nat /\ f[i] \in Int
      /\ p.fractions[e] \in Nat /\ p.fractions[e] <= Total(p.fractions)
      /\ Total(p.fractions) \in Nat /\ p.nReserve \in Nat
  BY <1>1, PegDataType, TotalNat DEF Fractions
<1>3. High(f, e) \in Nat /\ f[e] <= High(f, e) /\ Total(f) - Low(f, e) = High(f, e)
  <2>1. High(f, e) = f[e] + High(f, e + 1) /\ Low(f, e) + High(f, e) = Total(f)
    BY <1>1, <1>2, HighStep, PartsLemma
  <2>2. High(f, e) \in Nat /\ High(f, e + 1) \in Nat /\ Low(f, e) \in Nat /\ f[e] \in Nat
    BY <1>1, <1>2, TotalNat
  <2> QED BY <2>1, <2>2
<1>4. CASE ~Partial(level)
  <2>1. part = [reserve |-> 0, liquid |-> 0, poolReserve |-> p.nReserve, poolLast |-> p.fractions[e]]
    BY <1>4 DEF NothingPartial
  <2> QED BY <1>2, <1>3, <1>4, <2>1
<1>5. CASE Partial(level)
  <2>1. PICK lr \in Nat : lr = LastReserve(f, level) /\ lr <= f[e]
    BY <1>5, LastReserveLemma
  <2>2. PICK pe \in Nat, pr \in Nat, pt \in Nat :
          pe = p.fractions[e] /\ pr = p.nReserve /\ pt = Total(p.fractions)
    BY <1>2
  <2>3. PICK h \in Nat : h = High(f, e)
    BY <1>3
  <2>4. PICK take : take = Least(lr, Least(pe, pr))
    OBVIOUS
  <2>5. take \in Nat /\ take <= lr /\ take <= pe /\ take <= pr /\ (take = lr \/ take = pe \/ take = pr)
    BY <2>4 DEF Least
  <2>6. PICK last \in Nat : last = pe - take
    BY <2>5
  <2>7. PICK keep : keep = Least(pr - take, last)
    OBVIOUS
  <2>8. keep \in Nat /\ keep <= pr - take /\ keep <= last
    BY <2>5, <2>7 DEF Least
  <2>9. PICK due \in Nat : due = h - take
    <3>1. f[e] \in Nat /\ f[e] <= h
      BY <1>1, <1>2, <1>3, <2>3
    <3> QED BY <2>1, <2>5, <3>1
  <2>10. PICK rest \in Nat : rest = pt - take - keep
    BY <1>2, <2>2, <2>5, <2>6, <2>8
  <2>11. PICK q : q = RatioOf(last - keep, due, rest)
    OBVIOUS
  <2>12. last - keep \in Nat /\ last - keep <= rest
    BY <1>2, <2>2, <2>5, <2>6, <2>8, <2>10
  <2>13. q \in Nat /\ q <= due /\ (due <= rest => q <= last - keep)
    BY <2>11, <2>12, RatioLemma
  <2>14. PICK liquid : liquid = Least(q, last)
    OBVIOUS
  <2>15. liquid \in Nat /\ liquid <= q /\ liquid <= last
    BY <2>13, <2>14 DEF Least
  <2>16. part = [reserve |-> take, liquid |-> liquid, poolReserve |-> keep, poolLast |-> last - liquid]
    <3>1. part = TakePartial(f, p, level)
      BY <1>5
    <3>2. Total(f) - Low(f, e) - take = due
      BY <1>3, <2>3, <2>9
    <3> QED BY <2>1, <2>2, <2>4, <2>6, <2>7, <2>10, <2>11, <2>14, <3>1, <3>2 DEF TakePartial
  <2>17. keep = 0 \/ keep + lr <= pr
    BY <2>5, <2>6, <2>8
  <2>18. h + keep <= pt => keep <= last - liquid
    BY <2>5, <2>8, <2>9, <2>10, <2>13, <2>15
  <2>19. take + liquid + (last - liquid) = pe /\ take + liquid <= h /\ last - liquid \in Nat
    BY <2>5, <2>6, <2>9, <2>13, <2>15
  <2> QED BY <1>5, <2>1, <2>2, <2>3, <2>5, <2>8, <2>15, <2>16, <2>17, <2>18, <2>19
<1> QED BY <1>4, <1>5

\* What a user takes from the pool is all he still needs if the pool has it
\* beyond what it keeps in reserve, and then it does keep that.
LEMMA TakeLiquidLemma ==
  ASSUME NEW pooled \in Fractions, NEW reserve \in Nat, NEW todo \in Nat, NEW e \in Indexes,
         NEW got, got = TakeLiquid(pooled, reserve, todo, e)
  PROVE  /\ got.taken \in Fractions /\ got.rest \in Fractions
         /\ \A i \in Indexes : got.taken[i] + got.rest[i] = pooled[i]
         /\ got.left \in Nat
         /\ Total(got.taken) + got.left = todo
         /\ todo + reserve <= Total(pooled) => got.left = 0
         /\ todo + reserve <= Total(pooled) /\ reserve <= pooled[e] => reserve <= got.rest[e]
<1>1. PICK hold : hold = IF reserve > 0 THEN pooled[e] ELSE 0
  OBVIOUS
<1>2. PICK free : free = IF reserve > 0 THEN [pooled EXCEPT ![e] = 0] ELSE pooled
  OBVIOUS
<1>3. PICK moved : moved = MovedPart(free, todo)
  OBVIOUS
<1>0. \A i \in Indexes : pooled[i] \in Nat
  BY DEF Fractions
<1>4. hold \in Nat /\ free \in Fractions /\ (hold > 0 => free[e] = 0) /\ free[e] + hold = pooled[e]
      /\ \A i \in Indexes : i # e => free[i] = pooled[i]
  BY <1>0, <1>1, <1>2 DEF Fractions
<1>5. \A i \in Indexes : free[i] \in Nat
  BY <1>4 DEF Fractions
<1>6. /\ moved \in Fractions /\ \A i \in Indexes : moved[i] \in Nat /\ moved[i] <= free[i]
      /\ Total(moved) = Least(todo, Total(free))
  <2>1. moved \in Fractions /\ (\A i \in Indexes : moved[i] <= free[i]) /\ Total(moved) = Least(todo, Total(free))
    BY <1>3, <1>4, MovedPartLemma
  <2> QED BY <2>1 DEF Fractions
<1>7. Total(free) \in Nat /\ Total(pooled) \in Nat /\ Total(free) + hold = Total(pooled)
  <2>1. free[e] \in Int /\ \A i \in Indexes : pooled[i] \in Int /\ (i # e => free[i] = pooled[i])
    BY <1>0, <1>4, <1>5
  <2>2. Total(free) = Total(pooled) - pooled[e] + free[e]
    BY <2>1, TotalExcept
  <2>3. Total(free) \in Nat /\ Total(pooled) \in Nat
    BY <1>0, <1>5, TotalNat
  <2> QED BY <1>0, <1>4, <1>5, <2>2, <2>3
<1>8. PICK left \in Nat : left = todo - Total(moved)
  BY <1>6, <1>7 DEF Least
<1>9. PICK fromHold : fromHold = IF left <= hold THEN left ELSE 0
  OBVIOUS
<1>10. fromHold \in Nat /\ fromHold <= hold /\ fromHold <= left
  BY <1>4, <1>9
<1>11. PICK taken, rest :
         /\ taken = [moved EXCEPT ![e] = @ + fromHold]
         /\ rest = [Minus(free, moved) EXCEPT ![e] = IF hold > fromHold THEN hold - fromHold ELSE @]
  OBVIOUS
<1>20. got = [taken |-> taken, rest |-> rest, left |-> left - fromHold]
  BY <1>1, <1>2, <1>3, <1>8, <1>9, <1>11 DEF TakeLiquid, FromPool
<1>21. got.taken = taken /\ got.rest = rest /\ got.left = left - fromHold
  BY <1>20
<1>12. \A i \in Indexes : /\ got.taken[i] = moved[i] + (IF i = e THEN fromHold ELSE 0)
                          /\ got.rest[i] = (IF i = e /\ hold > fromHold THEN hold - fromHold ELSE free[i] - moved[i])
  BY <1>6, <1>11, <1>21 DEF Minus, Fractions
<1>13. \A i \in Indexes : /\ got.taken[i] \in Nat /\ got.rest[i] \in Nat
                          /\ got.taken[i] + got.rest[i] = pooled[i]
  <2> SUFFICES ASSUME NEW i \in Indexes
               PROVE  got.taken[i] \in Nat /\ got.rest[i] \in Nat /\ got.taken[i] + got.rest[i] = pooled[i]
    OBVIOUS
  <2>1. moved[i] \in Nat /\ free[i] \in Nat /\ pooled[i] \in Nat /\ moved[i] <= free[i]
    BY <1>0, <1>5, <1>6
  <2>2. CASE i # e
    BY <1>4, <1>12, <2>1, <2>2
  <2>3. CASE i = e /\ hold > fromHold
    BY <1>4, <1>10, <1>12, <2>1, <2>3
  <2>4. CASE i = e /\ ~(hold > fromHold)
    BY <1>4, <1>10, <1>12, <2>1, <2>4
  <2> QED BY <2>2, <2>3, <2>4
<1>14. got.taken \in Fractions /\ got.rest \in Fractions
  <2>1. \A i \in Indexes : taken[i] \in Nat /\ rest[i] \in Nat
    BY <1>13, <1>21
  <2>2. taken \in Fractions
    BY <1>6, <1>11, <2>1 DEF Fractions
  <2>3. rest \in Fractions
    BY <1>11, <2>1 DEF Fractions, Minus
  <2> QED BY <1>21, <2>2, <2>3
<1>15. Total(got.taken) = Total(moved) + fromHold
  <2>1. \A i \in Indexes : moved[i] \in Int /\ (i # e => got.taken[i] = moved[i])
    BY <1>6, <1>12
  <2>2. got.taken[e] \in Int /\ got.taken[e] = moved[e] + fromHold
    BY <1>12, <1>13
  <2>3. Total(got.taken) = Total(moved) - moved[e] + got.taken[e]
    BY <2>1, <2>2, TotalExcept
  <2>4. Total(moved) \in Int /\ moved[e] \in Int
    BY <2>1, TotalType
  <2> QED BY <1>10, <2>2, <2>3, <2>4
<1>16. Total(moved) \in Nat
  BY <1>6, TotalNat
<1>17. got.left = left - fromHold
  BY <1>21
<1>18. ASSUME todo + reserve <= Total(pooled) PROVE got.left = 0
  BY <1>4, <1>6, <1>7, <1>8, <1>9, <1>17, <1>18 DEF Least
<1>19. ASSUME todo + reserve <= Total(pooled), reserve <= pooled[e] PROVE reserve <= got.rest[e]
  <2>1. CASE reserve = 0
    BY <1>13, <2>1
  <2>2. CASE reserve > 0
    <3>1. hold = pooled[e] /\ hold > 0
      BY <1>0, <1>1, <1>19, <2>2
    <3>2. CASE todo <= Total(free)
      <4>1. left = 0 /\ fromHold = 0
        BY <1>4, <1>6, <1>7, <1>8, <1>9, <3>2 DEF Least
      <4>2. got.rest[e] = hold
        BY <1>4, <1>12, <3>1, <4>1
      <4> QED BY <1>19, <3>1, <4>2
    <3>3. CASE todo > Total(free)
      <4>1. left = todo - Total(free) /\ fromHold = left
        BY <1>4, <1>6, <1>7, <1>8, <1>9, <1>19, <3>3 DEF Least
      <4>2. hold - fromHold = Total(pooled) - todo
        BY <1>4, <1>7, <4>1
      <4>3. hold - fromHold >= reserve /\ hold > fromHold
        BY <1>4, <1>7, <1>10, <1>19, <2>2, <4>2
      <4>4. got.rest[e] = hold - fromHold
        BY <1>12, <4>3
      <4> QED BY <4>3, <4>4
    <3> QED BY <1>7, <3>2, <3>3
  <2> QED BY <2>1, <2>2
<1> QED BY <1>8, <1>10, <1>13, <1>14, <1>15, <1>16, <1>17, <1>18, <1>19

\* One update: user and pool together keep what he has below the level and what
\* the pool had.  It succeeds if the pool has the user's liquid and beyond it
\* what it keeps in reserve.
LEMMA UpdateLemma ==
  ASSUME NEW b \in PegDatas, NEW p \in PegDatas, NEW level, GoodLevel(level),
         NEW r, r = UpdatePegBalances(b, p, level), NEW e, e = Effective(level)
  PROVE  /\ \A i \in Indexes :
              /\ r.balance.fractions[i] + r.pool.fractions[i] = LowPart(b.fractions, e)[i] + p.fractions[i]
              /\ r.pool.fractions[i] <= p.fractions[i]
         /\ r.balance.peglevel = level /\ r.pool.peglevel = p.peglevel /\ r.pool.nReserve \in Nat
         /\ Partial(level) => r.pool.nReserve = 0 \/ r.pool.nReserve + LastReserve(b.fractions, level) <= p.nReserve
         /\ ~Partial(level) => r.pool.nReserve = p.nReserve
         /\ r.ok => /\ r.balance \in PegDatas /\ r.pool \in PegDatas
                    /\ Total(r.balance.fractions) = Total(b.fractions)
                    /\ IsValid(r.balance)
                    /\ CanUpdate(b, p, level)
         /\ /\ CanUpdate(b, p, level)
            /\ p.peglevel = level
            /\ \A i \in Indexes : i < e => p.fractions[i] = 0
            /\ ~Partial(level) => p.nReserve = 0
            /\ High(b.fractions, e) + r.pool.nReserve <= Total(p.fractions)
            => r.ok
<1>0. PICK f : f = b.fractions
  OBVIOUS
<1>1. /\ e \in Indexes /\ e \in Nat /\ e \in 0..PegSize /\ e + 1 \in 0..PegSize
      /\ f \in Fractions /\ p.fractions \in Fractions /\ level \in PegLevels
      /\ \A i \in Indexes : f[i] \in Nat /\ p.fractions[i] \in Nat /\ i \in Nat
      /\ p.peglevel \in PegLevels /\ p.nId \in Nat /\ p.nReserve \in Nat
  <2>1. level \in PegLevels
    BY DEF GoodLevel
  <2> QED BY <1>0, <2>1, EffectiveLemma, PegDataType, IndexesFinite
<1>2. PICK part : part = IF Partial(level) THEN TakePartial(f, p, level) ELSE NothingPartial(p, level)
  OBVIOUS
<1>3. /\ part.reserve \in Nat /\ part.liquid \in Nat /\ part.poolReserve \in Nat /\ part.poolLast \in Nat
      /\ part.reserve + part.liquid + part.poolLast = p.fractions[e]
      /\ part.reserve + part.liquid <= High(f, e)
      /\ Partial(level) => part.poolReserve = 0 \/ part.poolReserve + LastReserve(f, level) <= p.nReserve
      /\ Partial(level) /\ High(f, e) + part.poolReserve <= Total(p.fractions) => part.poolReserve <= part.poolLast
      /\ ~Partial(level) => part.reserve = 0 /\ part.liquid = 0 /\ part.poolReserve = p.nReserve
  BY <1>1, <1>2, PartLemma
<1>4. PICK res \in Nat, liq \in Nat, keep \in Nat, last \in Nat :
        res = part.reserve /\ liq = part.liquid /\ keep = part.poolReserve /\ last = part.poolLast
  BY <1>3
<1>5. PICK frReserve : frReserve = [LowPart(f, e) EXCEPT ![e] = res]
  OBVIOUS
<1>6. /\ frReserve \in Fractions
      /\ \A i \in Indexes : /\ frReserve[i] = (IF i < e THEN f[i] ELSE IF i = e THEN res ELSE 0)
                            /\ frReserve[i] \in Nat
  <2>1. \A i \in Indexes : frReserve[i] = IF i < e THEN f[i] ELSE IF i = e THEN res ELSE 0
    BY <1>1, <1>5 DEF LowPart
  <2>2. \A i \in Indexes : frReserve[i] \in Nat
    BY <1>1, <2>1
  <2> QED BY <1>5, <2>1, <2>2 DEF Fractions, LowPart
<1>7. /\ Total(f) \in Nat /\ Low(f, e) \in Nat /\ High(f, e) \in Nat /\ Total(f) = Low(f, e) + High(f, e)
      /\ Total(frReserve) \in Nat /\ Total(frReserve) = Low(f, e) + res
  <2>1. \A i \in Indexes : f[i] \in Int
    BY <1>1
  <2>2. Total(LowPart(f, e)) = Low(f, e) /\ Total(f) = Low(f, e) + High(f, e)
    BY <1>1, <2>1, PartsLemma
  <2>3. \A i \in Indexes : LowPart(f, e)[i] \in Int /\ (i # e => frReserve[i] = LowPart(f, e)[i])
    <3>1. \A i \in Indexes : LowPart(f, e)[i] = IF i < e THEN f[i] ELSE 0
      BY DEF LowPart
    <3>2. ASSUME NEW i \in Indexes, i # e PROVE frReserve[i] = LowPart(f, e)[i]
      BY <1>6, <3>1, <3>2
    <3>3. ASSUME NEW i \in Indexes PROVE LowPart(f, e)[i] \in Int
      BY <2>1, <3>1
    <3> QED BY <3>2, <3>3
  <2>4. frReserve[e] = res /\ LowPart(f, e)[e] = 0
    BY <1>1, <1>6 DEF LowPart
  <2>5. frReserve[e] \in Int
    BY <2>4
  <2>6. Total(frReserve) = Total(LowPart(f, e)) - LowPart(f, e)[e] + frReserve[e]
    BY <1>1, <2>3, <2>5, TotalExcept
  <2>7. Total(f) \in Nat /\ Low(f, e) \in Nat /\ High(f, e) \in Nat /\ Total(frReserve) \in Nat
    BY <1>1, <1>6, TotalNat
  <2> QED BY <2>2, <2>4, <2>6, <2>7
<1>8. PICK todo \in Nat : todo = Total(f) - Total(frReserve) - liq
  BY <1>3, <1>4, <1>7
<1>9. todo = High(f, e) - res - liq
  BY <1>7, <1>8
<1>10. PICK pooled : pooled = [p.fractions EXCEPT ![e] = last]
  OBVIOUS
<1>11. /\ pooled \in Fractions
       /\ \A i \in Indexes : pooled[i] \in Nat /\ pooled[i] = (IF i = e THEN last ELSE p.fractions[i])
  BY <1>1, <1>10 DEF Fractions
<1>12. Total(pooled) \in Nat /\ Total(p.fractions) \in Nat /\ Total(pooled) = Total(p.fractions) - res - liq
  <2>1. pooled[e] \in Int /\ \A i \in Indexes : p.fractions[i] \in Int /\ (i # e => pooled[i] = p.fractions[i])
    BY <1>1, <1>11
  <2>2. Total(pooled) = Total(p.fractions) - p.fractions[e] + pooled[e]
    BY <1>1, <2>1, TotalExcept
  <2>3. Total(pooled) \in Nat /\ Total(p.fractions) \in Nat
    BY <1>1, <1>11, TotalNat
  <2>4. pooled[e] = last /\ p.fractions[e] \in Nat /\ p.fractions[e] = res + liq + last
    BY <1>1, <1>3, <1>4, <1>11
  <2> QED BY <2>2, <2>3, <2>4
<1>13. PICK got : got = TakeLiquid(pooled, keep, todo, e)
  OBVIOUS
<1>14. PICK taken \in Fractions, rest \in Fractions, left \in Nat :
         taken = got.taken /\ rest = got.rest /\ left = got.left
  BY <1>1, <1>11, <1>13, TakeLiquidLemma
<1>15. /\ \A i \in Indexes : taken[i] + rest[i] = pooled[i] /\ taken[i] \in Nat /\ rest[i] \in Nat
       /\ Total(taken) + left = todo
       /\ todo + keep <= Total(pooled) => left = 0
       /\ todo + keep <= Total(pooled) /\ keep <= last => keep <= rest[e]
       /\ Total(taken) \in Nat /\ Total(rest) \in Nat /\ Total(taken) + Total(rest) = Total(pooled)
  <2>1. /\ \A i \in Indexes : taken[i] + rest[i] = pooled[i]
        /\ Total(taken) + left = todo
        /\ todo + keep <= Total(pooled) => left = 0
        /\ todo + keep <= Total(pooled) /\ keep <= pooled[e] => keep <= rest[e]
    <3>1. /\ \A i \in Indexes : got.taken[i] + got.rest[i] = pooled[i]
          /\ Total(got.taken) + got.left = todo
          /\ todo + keep <= Total(pooled) => got.left = 0
          /\ todo + keep <= Total(pooled) /\ keep <= pooled[e] => keep <= got.rest[e]
      <4>1. e \in Indexes /\ pooled \in Fractions
        BY <1>1, <1>11
      <4> QED BY <1>13, <4>1, TakeLiquidLemma
    <3> QED BY <1>14, <3>1
  <2>2. \A i \in Indexes : taken[i] \in Nat /\ rest[i] \in Nat
    BY DEF Fractions
  <2>3. Total(taken) \in Nat /\ Total(rest) \in Nat
    BY <2>2, TotalNat
  <2>4. Total(pooled) = Total(taken) + Total(rest)
    <3>1. \A i \in Indexes : taken[i] \in Int /\ rest[i] \in Int /\ pooled[i] = taken[i] + rest[i]
      BY <2>1, <2>2
    <3> QED BY <3>1, TotalPlus
  <2> QED BY <1>1, <1>11, <2>1, <2>2, <2>3, <2>4
<1>16. PICK frLiquid : frLiquid = [taken EXCEPT ![e] = @ + liq]
  OBVIOUS
<1>17. /\ frLiquid \in Fractions
       /\ \A i \in Indexes : frLiquid[i] \in Nat /\ frLiquid[i] = taken[i] + (IF i = e THEN liq ELSE 0)
       /\ Total(frLiquid) = Total(taken) + liq
  <2>1. \A i \in Indexes : frLiquid[i] \in Nat /\ frLiquid[i] = taken[i] + (IF i = e THEN liq ELSE 0)
    BY <1>15, <1>16 DEF Fractions
  <2>2. frLiquid[e] \in Int /\ \A i \in Indexes : taken[i] \in Int /\ (i # e => frLiquid[i] = taken[i])
    BY <1>1, <1>15, <2>1
  <2>3. Total(frLiquid) = Total(taken) - taken[e] + frLiquid[e]
    BY <1>1, <2>2, TotalExcept
  <2>4. taken[e] \in Nat /\ frLiquid[e] = taken[e] + liq
    BY <1>1, <1>15, <2>1
  <2>5. frLiquid \in Fractions
    BY <1>16, <2>1 DEF Fractions
  <2> QED BY <1>15, <2>1, <2>3, <2>4, <2>5
<1>18. PICK new : new = Plus(frReserve, frLiquid)
  OBVIOUS
<1>19. /\ new \in Fractions
       /\ \A i \in Indexes : new[i] \in Nat /\ new[i] = frReserve[i] + frLiquid[i]
       /\ Total(new) = Total(frReserve) + Total(taken) + liq
  <2>1. \A i \in Indexes : new[i] \in Nat /\ new[i] = frReserve[i] + frLiquid[i]
    BY <1>6, <1>17, <1>18 DEF Plus
  <2>2. new \in Fractions
    BY <1>18, <2>1 DEF Plus, Fractions
  <2>3. \A i \in Indexes : frReserve[i] \in Int /\ frLiquid[i] \in Int /\ new[i] = frReserve[i] + frLiquid[i]
    BY <1>6, <1>17, <2>1
  <2>4. Total(new) = Total(frReserve) + Total(frLiquid)
    BY <2>3, TotalPlus
  <2> QED BY <1>7, <1>15, <1>17, <2>1, <2>2, <2>4
<1>20. PICK newBalance, newPool :
         /\ newBalance = [fractions |-> new, peglevel |-> level, nReserve |-> Total(frReserve),
                          nLiquid |-> Total(f) - Total(frReserve), nId |-> p.nId + 1]
         /\ newPool = [fractions |-> rest, peglevel |-> p.peglevel, nReserve |-> keep,
                       nLiquid |-> Total(rest) - keep, nId |-> p.nId + 1]
  OBVIOUS
<1>21. /\ r.balance = newBalance /\ r.pool = newPool
       /\ r.ok <=> /\ Total(f) = Total(new) /\ IsValid(newBalance) /\ IsValid(newPool)
                   /\ todo <= Total(pooled) - keep /\ left = 0
                   /\ CanUpdate(b, p, level)
  <2>1. PICK settled : settled = Settled(b, p, level, frReserve, frLiquid, rest, keep)
    OBVIOUS
  <2>2. settled = [ok |-> Total(f) = Total(new) /\ IsValid(newBalance) /\ IsValid(newPool),
                   balance |-> newBalance, pool |-> newPool]
    BY <1>0, <1>18, <1>20, <2>1 DEF Settled
  <2>3. PICK ex : ex = Exchanged(b, p, level, part)
    OBVIOUS
  <2>4. ex = [settled EXCEPT !.ok = @ /\ todo <= Total(pooled) - keep /\ left = 0]
    BY <1>0, <1>4, <1>5, <1>8, <1>10, <1>13, <1>14, <1>16, <2>1, <2>3, Zenon DEF Exchanged
  <2>5. r = [ex EXCEPT !.ok = @ /\ CanUpdate(b, p, level)]
    BY <1>0, <1>2, <2>3, Zenon DEF UpdatePegBalances
  <2> QED BY <2>2, <2>4, <2>5
<1>22. ASSUME NEW i \in Indexes
       PROVE  new[i] + rest[i] = LowPart(f, e)[i] + p.fractions[i] /\ rest[i] <= p.fractions[i]
  <2>1. /\ new[i] = frReserve[i] + frLiquid[i] /\ frLiquid[i] = taken[i] + (IF i = e THEN liq ELSE 0)
        /\ taken[i] + rest[i] = pooled[i] /\ taken[i] \in Nat /\ rest[i] \in Nat
        /\ pooled[i] = (IF i = e THEN last ELSE p.fractions[i])
        /\ frReserve[i] = (IF i < e THEN f[i] ELSE IF i = e THEN res ELSE 0)
    BY <1>6, <1>11, <1>15, <1>17, <1>19
  <2>2. LowPart(f, e)[i] = IF i < e THEN f[i] ELSE 0
    BY DEF LowPart
  <2>3. i \in Nat /\ e \in Nat /\ f[i] \in Nat /\ p.fractions[i] \in Nat /\ p.fractions[e] = res + liq + last
    BY <1>1, <1>3, <1>4
  <2>4. CASE i < e
    BY <2>1, <2>2, <2>3, <2>4
  <2>5. CASE i = e
    BY <2>1, <2>2, <2>3, <2>5
  <2>6. CASE i > e
    BY <2>1, <2>2, <2>3, <2>6
  <2> QED BY <2>3, <2>4, <2>5, <2>6
<1>23. ASSUME r.ok
       PROVE  /\ newBalance \in PegDatas /\ newPool \in PegDatas
              /\ Total(new) = Total(f) /\ IsValid(newBalance) /\ CanUpdate(b, p, level)
  <2>1. Total(rest) - keep \in Nat
    BY <1>12, <1>15, <1>21, <1>23
  <2>2. Total(f) - Total(frReserve) \in Nat
    BY <1>7, <1>8
  <2>3. newBalance \in PegDatas
    BY <1>1, <1>7, <1>19, <1>20, <2>2 DEF PegDatas
  <2>4. newPool \in PegDatas
    BY <1>1, <1>20, <2>1 DEF PegDatas
  <2> QED BY <1>21, <1>23, <2>3, <2>4
<1>24. ASSUME CanUpdate(b, p, level), p.peglevel = level,
              \A i \in Indexes : i < e => p.fractions[i] = 0,
              ~Partial(level) => p.nReserve = 0,
              High(f, e) + keep <= Total(p.fractions)
       PROVE  r.ok
  <2>1. todo + keep <= Total(pooled) /\ left = 0 /\ Total(taken) = todo
    BY <1>7, <1>9, <1>12, <1>15, <1>24
  <2>2. Total(new) = Total(f)
    BY <1>7, <1>8, <1>19, <2>1
  <2>3. LevelIsValid(level)
    BY DEF GoodLevel
  <2>4. /\ Total(new) \in Nat /\ Low(new, e) \in Nat /\ High(new, e) \in Nat /\ High(new, e + 1) \in Nat
        /\ Low(new, e) + High(new, e) = Total(new)
        /\ High(new, e) = new[e] + High(new, e + 1)
    BY <1>1, <1>19, PartsAtLevel
  <2>5. Low(new, e) = Low(f, e)
    <3>1. ASSUME NEW i \in Indexes, i < e PROVE new[i] = f[i]
      <4>1. p.fractions[i] = 0 /\ rest[i] \in Nat /\ rest[i] <= p.fractions[i] /\ f[i] \in Nat /\ new[i] \in Nat
        BY <1>1, <1>15, <1>19, <1>22, <1>24, <3>1
      <4>2. LowPart(f, e)[i] = f[i]
        BY <3>1 DEF LowPart
      <4> QED BY <1>22, <4>1, <4>2
    <3>2. \A i \in Indexes : f[i] \in Int /\ new[i] \in Int
      BY <1>1, <1>19
    <3> QED BY <1>1, <3>1, <3>2, LowEqual
  <2>6. new[e] \in Nat /\ new[e] >= res
    <3>1. frReserve[e] = res /\ frLiquid[e] \in Nat
      BY <1>1, <1>6, <1>17
    <3> QED BY <1>1, <1>19, <3>1
  <2>7. IsValid(newBalance)
    <3>1. /\ newBalance.peglevel = level /\ newBalance.fractions = new
          /\ newBalance.nReserve = Low(f, e) + res /\ newBalance.nLiquid = High(f, e) - res
      BY <1>7, <1>20
    <3>2. newBalance.nReserve + newBalance.nLiquid = Total(new)
      BY <1>7, <2>2, <3>1
    <3>3. CASE Partial(level)
      <4>1. newBalance.nLiquid >= High(new, e + 1) /\ newBalance.nReserve >= Low(new, e)
        BY <1>7, <2>2, <2>4, <2>5, <2>6, <3>1
      <4> QED BY <2>3, <3>1, <3>2, <3>3, <4>1 DEF IsValid
    <3>4. CASE ~Partial(level)
      <4>1. newBalance.nLiquid = High(new, e) /\ newBalance.nReserve = Low(new, e)
        <5>1. res = 0
          BY <1>3, <1>4, <3>4
        <5> QED BY <1>7, <2>2, <2>4, <2>5, <3>1, <5>1
      <4> QED BY <2>3, <3>1, <3>2, <3>4, <4>1 DEF IsValid
    <3> QED BY <3>3, <3>4
  <2>8. /\ Total(rest) \in Nat /\ High(rest, e) \in Nat /\ High(rest, e + 1) \in Nat
        /\ Low(rest, e) + High(rest, e) = Total(rest)
        /\ High(rest, e) = rest[e] + High(rest, e + 1)
    BY <1>1, <1>15, PartsAtLevel
  <2>9. Low(rest, e) = 0
    <3>1. ASSUME NEW i \in Indexes, i < e PROVE rest[i] = 0
      BY <1>15, <1>22, <1>24, <3>1
    <3>2. \A i \in Indexes : rest[i] \in Int
      BY <1>15
    <3> QED BY <1>1, <3>1, <3>2, LowZero
  <2>10. IsValid(newPool)
    <3>1. /\ newPool.peglevel = level /\ newPool.fractions = rest
          /\ newPool.nReserve = keep /\ newPool.nLiquid = Total(rest) - keep
      BY <1>20, <1>24
    <3>2. newPool.nReserve + newPool.nLiquid = Total(rest)
      BY <2>8, <3>1
    <3>3. CASE Partial(level)
      <4>1. keep <= rest[e]
        BY <1>3, <1>4, <1>15, <1>24, <2>1, <3>3
      <4>2. newPool.nLiquid >= High(rest, e + 1) /\ newPool.nReserve >= Low(rest, e)
        <5>1. rest[e] \in Nat
          BY <1>1, <1>15
        <5> QED BY <2>8, <2>9, <3>1, <4>1, <5>1
      <4> QED BY <2>3, <3>1, <3>2, <3>3, <4>2 DEF IsValid
    <3>4. CASE ~Partial(level)
      <4>1. keep = 0
        BY <1>3, <1>4, <1>24, <3>4
      <4>2. newPool.nLiquid = High(rest, e) /\ newPool.nReserve = Low(rest, e)
        BY <2>8, <2>9, <3>1, <4>1
      <4> QED BY <2>3, <3>1, <3>2, <3>4, <4>2 DEF IsValid
    <3> QED BY <3>3, <3>4
  <2>11. todo <= Total(pooled) - keep
    BY <1>12, <2>1
  <2> QED BY <1>21, <1>24, <2>1, <2>2, <2>7, <2>10, <2>11
<1>25. /\ newBalance.fractions = new /\ newPool.fractions = rest /\ newPool.nReserve = keep
       /\ newBalance.peglevel = level /\ newPool.peglevel = p.peglevel
  BY <1>20
<1>26. /\ Partial(level) => keep = 0 \/ keep + LastReserve(f, level) <= p.nReserve
       /\ ~Partial(level) => keep = p.nReserve
       /\ keep \in Nat
  BY <1>3, <1>4
<1> QED BY <1>0, <1>21, <1>22, <1>23, <1>24, <1>25, <1>26

---------------------------------------------------------------------------
(* Trades *)

\* What leaves one balance arrives at the other, and both are well formed and
\* valid at their old level.
GoodTrade(src, dst, m) ==
  /\ m.src \in PegDatas /\ m.dst \in PegDatas
  /\ m.src.peglevel = src.peglevel /\ m.dst.peglevel = dst.peglevel
  /\ IsValid(m.src) /\ IsValid(m.dst)
  /\ \A i \in Indexes : m.src.fractions[i] + m.dst.fractions[i] = src.fractions[i] + dst.fractions[i]

\* moveliquid and movereserve are good trades if their checks pass.
LEMMA MovePartLemma ==
  ASSUME NEW src \in PegDatas, NEW dst \in PegDatas, NEW frPart \in [Indexes -> Int],
         NEW amount \in Nat, NEW liquid \in Nat, NEW reserve \in Nat,
         liquid <= src.nLiquid, reserve <= src.nReserve,
         NEW r, r = MovePart(src, dst, frPart, RatioPart(frPart, amount), liquid, reserve), r.ok
  PROVE  GoodTrade(src, dst, r.move)
<1>1. PICK m : m = Moved(src, dst, RatioPart(frPart, amount), liquid, reserve)
  OBVIOUS
<1>2. r.move = m /\ IsPositive(frPart) /\ IsPositive(m.src.fractions) /\ IsValid(m.src) /\ IsValid(m.dst)
  BY <1>1 DEF MovePart, MoveIsValid
<1>3. frPart \in Fractions
  BY <1>2 DEF IsPositive, Fractions
<1>4. PICK mv \in Fractions : mv = RatioPart(frPart, amount)
  BY <1>3, RatioPartIsExact
<1>5. PICK fs, fd : fs = Minus(src.fractions, mv) /\ fd = Plus(dst.fractions, mv)
  OBVIOUS
<1>6. /\ m.src = [fractions |-> fs, peglevel |-> src.peglevel, nReserve |-> src.nReserve - reserve,
                  nLiquid |-> src.nLiquid - liquid, nId |-> src.nId]
      /\ m.dst = [fractions |-> fd, peglevel |-> dst.peglevel, nReserve |-> dst.nReserve + reserve,
                  nLiquid |-> dst.nLiquid + liquid, nId |-> dst.nId]
  BY <1>1, <1>4, <1>5 DEF Moved, PegDatas
<1>7. \A i \in Indexes : src.fractions[i] \in Nat /\ dst.fractions[i] \in Nat /\ mv[i] \in Nat
  BY PegDataType DEF Fractions
<1>8. \A i \in Indexes : fs[i] = src.fractions[i] - mv[i] /\ fd[i] = dst.fractions[i] + mv[i]
  BY <1>5 DEF Minus, Plus
<1>9. m.src.fractions = fs /\ m.dst.fractions = fd
  BY <1>6 DEF PegDatas
<1>10. fs \in Fractions /\ fd \in Fractions
  <2>1. \A i \in Indexes : fs[i] >= 0
    BY <1>2, <1>9 DEF IsPositive
  <2>2. \A i \in Indexes : fs[i] \in Nat /\ fd[i] \in Nat
    BY <1>7, <1>8, <2>1
  <2> QED BY <1>5, <2>2 DEF Fractions, Minus, Plus
<1>11. /\ src.nLiquid - liquid \in Nat /\ src.nReserve - reserve \in Nat
       /\ dst.nLiquid + liquid \in Nat /\ dst.nReserve + reserve \in Nat
  BY PegDataType
<1>12. m.src \in PegDatas /\ m.dst \in PegDatas
  <2>1. /\ src.peglevel \in PegLevels /\ dst.peglevel \in PegLevels
        /\ src.nId \in Nat /\ dst.nId \in Nat
    BY PegDataType
  <2> QED BY <1>6, <1>10, <1>11, <2>1 DEF PegDatas
<1>13. m.src.peglevel = src.peglevel /\ m.dst.peglevel = dst.peglevel
  BY <1>6 DEF PegDatas
<1>14. \A i \in Indexes : m.src.fractions[i] + m.dst.fractions[i] = src.fractions[i] + dst.fractions[i]
  BY <1>7, <1>8, <1>9
<1> QED BY <1>2, <1>12, <1>13, <1>14 DEF GoodTrade

\* Of the liquid part nothing is below the level, of the reserve part nothing
\* above it, and of the last fraction as much as the balance counts.
IsOfKind(src, level, part, amount, liquid, reserve) ==
  LET e == Effective(level)
  IN  \/ /\ liquid = amount /\ reserve = 0 /\ Low(part, e) = 0
         /\ Partial(level) => part[e] = src.nLiquid - High(src.fractions, e + 1)
      \/ /\ liquid = 0 /\ reserve = amount /\ High(part, e + 1) = 0
         /\ part[e] = IF Partial(level) THEN src.nReserve - Low(src.fractions, e) ELSE 0

\* A move of a part that the source has, and counts as of that kind, passes all
\* checks.
LEMMA MoveSucceeds ==
  ASSUME NEW src \in PegDatas, NEW dst \in PegDatas, NEW level, GoodLevel(level),
         src.peglevel = level, dst.peglevel = level, IsValid(src), IsValid(dst),
         NEW e, e = Effective(level),
         NEW part \in Fractions, \A i \in Indexes : part[i] <= src.fractions[i],
         NEW amount \in Nat, amount <= Total(part), NEW liquid, NEW reserve,
         IsOfKind(src, level, part, amount, liquid, reserve)
  PROVE  MovePart(src, dst, part, RatioPart(part, amount), liquid, reserve).ok
<1>0. e \in Indexes
  BY EffectiveLemma
<1>1. PICK f, g : f = src.fractions /\ g = dst.fractions
  OBVIOUS
<1>2. PICK mv : mv = RatioPart(part, amount)
  OBVIOUS
<1>3. Total(part) \in Nat /\ \A i \in Indexes : part[i] \in Nat
  BY TotalNat DEF Fractions
<1>4. mv \in Fractions /\ (\A i \in Indexes : mv[i] <= part[i]) /\ Total(mv) = amount
  BY <1>2, <1>3, RatioPartIsExact DEF Least
<1>5. \A i \in Indexes : /\ f[i] \in Nat /\ g[i] \in Nat /\ mv[i] \in Nat /\ part[i] \in Nat
                         /\ mv[i] <= part[i] /\ part[i] <= f[i]
  BY <1>1, <1>3, <1>4, PegDataType DEF Fractions
<1>6. PICK fs, fd : fs = Minus(f, mv) /\ fd = Plus(g, mv)
  OBVIOUS
<1>7. \A i \in Indexes : /\ fs[i] \in Nat /\ fs[i] = f[i] - mv[i]
                         /\ fd[i] \in Nat /\ fd[i] = g[i] + mv[i]
  BY <1>5, <1>6 DEF Minus, Plus
<1>8. PICK m : m = Moved(src, dst, mv, liquid, reserve)
  OBVIOUS
<1>9. /\ m.src.fractions = fs /\ m.src.peglevel = level
      /\ m.src.nLiquid = src.nLiquid - liquid /\ m.src.nReserve = src.nReserve - reserve
      /\ m.dst.fractions = fd /\ m.dst.peglevel = level
      /\ m.dst.nLiquid = dst.nLiquid + liquid /\ m.dst.nReserve = dst.nReserve + reserve
  BY <1>1, <1>6, <1>8 DEF Moved, PegDatas
<1>10. /\ Total(f) \in Nat /\ Low(f, e) \in Nat /\ High(f, e) \in Nat /\ High(f, e + 1) \in Nat
       /\ Low(f, e) + High(f, e) = Total(f) /\ High(f, e) = f[e] + High(f, e + 1)
  BY <1>0, <1>5, PartsAtLevel
<1>11. /\ Total(g) \in Nat /\ Low(g, e) \in Nat /\ High(g, e) \in Nat /\ High(g, e + 1) \in Nat
       /\ Low(g, e) + High(g, e) = Total(g) /\ High(g, e) = g[e] + High(g, e + 1)
  BY <1>0, <1>5, PartsAtLevel
<1>12. /\ Low(mv, e) \in Nat /\ High(mv, e) \in Nat /\ High(mv, e + 1) \in Nat
       /\ Low(mv, e) + High(mv, e) = amount /\ High(mv, e) = mv[e] + High(mv, e + 1)
  <2>1. \A i \in Indexes : mv[i] \in Nat
    BY <1>5
  <2>2. /\ Low(mv, e) \in Nat /\ High(mv, e) \in Nat /\ High(mv, e + 1) \in Nat
        /\ Low(mv, e) + High(mv, e) = Total(mv) /\ High(mv, e) = mv[e] + High(mv, e + 1)
    BY <1>0, <2>1, PartsAtLevel
  <2> QED BY <1>4, <2>2
<1>13. /\ Total(fs) \in Nat /\ Low(fs, e) \in Nat /\ High(fs, e) \in Nat /\ High(fs, e + 1) \in Nat
       /\ Low(fs, e) + High(fs, e) = Total(fs)
       /\ Low(f, e) = Low(fs, e) + Low(mv, e) /\ High(f, e) = High(fs, e) + High(mv, e)
       /\ High(f, e + 1) = High(fs, e + 1) + High(mv, e + 1)
  <2>1. \A i \in Indexes : fs[i] \in Nat
    BY <1>7
  <2>2. AreSum(f, fs, mv)
    BY <1>5, <1>7 DEF AreSum
  <2>3. /\ Low(f, e) = Low(fs, e) + Low(mv, e) /\ High(f, e) = High(fs, e) + High(mv, e)
        /\ High(f, e + 1) = High(fs, e + 1) + High(mv, e + 1)
    BY <1>0, <2>2, PartsPlus
  <2> QED BY <1>0, <2>1, <2>3, PartsAtLevel
<1>14. /\ Total(fd) \in Nat /\ Low(fd, e) + High(fd, e) = Total(fd)
       /\ Low(fd, e) = Low(g, e) + Low(mv, e) /\ High(fd, e) = High(g, e) + High(mv, e)
       /\ High(fd, e + 1) = High(g, e + 1) + High(mv, e + 1)
  <2>1. \A i \in Indexes : fd[i] \in Nat
    BY <1>7
  <2>2. AreSum(fd, g, mv)
    BY <1>5, <1>7 DEF AreSum
  <2>3. /\ Low(fd, e) = Low(g, e) + Low(mv, e) /\ High(fd, e) = High(g, e) + High(mv, e)
        /\ High(fd, e + 1) = High(g, e + 1) + High(mv, e + 1)
    BY <1>0, <2>2, PartsPlus
  <2> QED BY <1>0, <2>1, <2>3, PartsAtLevel
<1>15. /\ Low(mv, e) <= Low(part, e) /\ High(mv, e + 1) <= High(part, e + 1)
       /\ Low(part, e) \in Nat /\ High(part, e + 1) \in Nat
  <2>0. PICK d : d = Minus(part, mv)
    OBVIOUS
  <2>1. \A i \in Indexes : d[i] \in Nat
    BY <1>5, <2>0 DEF Minus
  <2>4. AreSum(part, d, mv)
    BY <1>5, <2>0 DEF Minus, AreSum
  <2>2. Low(part, e) = Low(d, e) + Low(mv, e) /\ High(part, e + 1) = High(d, e + 1) + High(mv, e + 1)
    BY <1>0, <2>4, PartsPlus
  <2>3. Low(d, e) \in Nat /\ High(d, e + 1) \in Nat
    BY <1>0, <2>1, PartsAtLevel
  <2> QED BY <1>12, <2>2, <2>3
<1>16. mv[e] \in Nat /\ part[e] \in Nat /\ mv[e] <= part[e] /\ f[e] \in Nat /\ g[e] \in Nat
  BY <1>0, <1>5
<1>17. LevelIsValid(level)
  BY DEF GoodLevel
<1>18. /\ src.nLiquid \in Nat /\ src.nReserve \in Nat /\ dst.nLiquid \in Nat /\ dst.nReserve \in Nat
       /\ src.nReserve + src.nLiquid = Total(f) /\ dst.nReserve + dst.nLiquid = Total(g)
       /\ Partial(level) => /\ src.nLiquid >= High(f, e + 1) /\ src.nReserve >= Low(f, e)
                            /\ dst.nLiquid >= High(g, e + 1) /\ dst.nReserve >= Low(g, e)
       /\ ~Partial(level) => /\ src.nLiquid = High(f, e) /\ src.nReserve = Low(f, e)
                             /\ dst.nLiquid = High(g, e) /\ dst.nReserve = Low(g, e)
  BY <1>1, PegDataType DEF IsValid
<1>19. \/ /\ liquid = amount /\ reserve = 0 /\ Low(mv, e) = 0
          /\ Partial(level) => part[e] = src.nLiquid - High(f, e + 1)
       \/ /\ liquid = 0 /\ reserve = amount /\ High(mv, e + 1) = 0
          /\ part[e] = IF Partial(level) THEN src.nReserve - Low(f, e) ELSE 0
  BY <1>1, <1>12, <1>15 DEF IsOfKind
<1>20. IsValid(m.src) /\ IsValid(m.dst)
  <2>1. /\ m.src.nReserve + m.src.nLiquid = Total(fs) /\ m.dst.nReserve + m.dst.nLiquid = Total(fd)
    <3>1. liquid \in Nat /\ reserve \in Nat /\ liquid + reserve = amount
      BY <1>19
    <3>2. Total(fs) = Total(f) - amount /\ Total(fd) = Total(g) + amount
      BY <1>10, <1>11, <1>12, <1>13, <1>14
    <3>3. PICK sl \in Nat, sr \in Nat, dl \in Nat, dr \in Nat :
            /\ sl = src.nLiquid /\ sr = src.nReserve /\ dl = dst.nLiquid /\ dr = dst.nReserve
            /\ sr + sl = Total(f) /\ dr + dl = Total(g)
      BY <1>18
    <3>4. (sr - reserve) + (sl - liquid) = Total(fs)
      BY <1>10, <3>1, <3>2, <3>3
    <3>5. (dr + reserve) + (dl + liquid) = Total(fd)
      BY <1>11, <3>1, <3>2, <3>3
    <3> QED BY <1>9, <3>3, <3>4, <3>5
  <2>2. CASE Partial(level)
    <3>1. m.src.nLiquid >= High(fs, e + 1) /\ m.src.nReserve >= Low(fs, e)
      BY <1>9, <1>10, <1>12, <1>13, <1>16, <1>18, <1>19, <2>2
    <3>2. m.dst.nLiquid >= High(fd, e + 1) /\ m.dst.nReserve >= Low(fd, e)
      BY <1>9, <1>11, <1>12, <1>14, <1>16, <1>18, <1>19, <2>2
    <3> QED BY <1>9, <1>17, <2>1, <2>2, <3>1, <3>2 DEF IsValid
  <2>3. CASE ~Partial(level)
    <3>1. m.src.nLiquid = High(fs, e) /\ m.src.nReserve = Low(fs, e)
      BY <1>9, <1>10, <1>12, <1>13, <1>16, <1>18, <1>19, <2>3
    <3>2. m.dst.nLiquid = High(fd, e) /\ m.dst.nReserve = Low(fd, e)
      BY <1>9, <1>11, <1>12, <1>14, <1>16, <1>18, <1>19, <2>3
    <3> QED BY <1>9, <1>17, <2>1, <2>3, <3>1, <3>2 DEF IsValid
  <2> QED BY <2>2, <2>3
<1>21. IsPositive(part) /\ IsPositive(m.src.fractions)
  BY <1>5, <1>7, <1>9 DEF IsPositive
<1> QED BY <1>2, <1>8, <1>20, <1>21 DEF MovePart, MoveIsValid

---------------------------------------------------------------------------
(* Sums over users *)

\* What all users have of each fraction sums up to what they have in all.
LEMMA SwapTotals ==
  ASSUME NEW h, \A u \in Users : \A i \in Indexes : h[u][i] \in Int,
         NEW sum, \A i \in Indexes : sum[i] = SumOf([u \in Users |-> h[u][i]], Users)
  PROVE  /\ \A i \in Indexes : sum[i] \in Int
         /\ Total(sum) = SumOf([u \in Users |-> Total(h[u])], Users)
<1>0. IsFiniteSet(Users) /\ IsFiniteSet(Indexes)
  BY ExchangeAssumption, IndexesFinite
<1>1. PICK t : t = [u \in Users |-> h[u]]
  OBVIOUS
<1>2. \A u \in Users, i \in Indexes : t[u][i] \in Int
  BY <1>1
<1>3. SumOf([u \in Users |-> SumOf(t[u], Indexes)], Users)
        = SumOf([i \in Indexes |-> SumOf([u \in Users |-> t[u][i]], Users)], Indexes)
  BY <1>0, <1>2, SumSwap
<1>4. ASSUME NEW i \in Indexes PROVE sum[i] \in Int /\ sum[i] = SumOf([u \in Users |-> t[u][i]], Users)
  <2>1. [u \in Users |-> t[u][i]] = [u \in Users |-> h[u][i]]
    BY <1>1
  <2>2. PICK col : col = [u \in Users |-> t[u][i]]
    OBVIOUS
  <2>3. \A u \in Users : col[u] \in Int
    BY <1>2, <2>2
  <2>4. SumOf(col, Users) \in Int
    BY <1>0, <2>3, SumType
  <2> QED BY <2>1, <2>2, <2>4
<1>5. PICK cols : cols = [i \in Indexes |-> SumOf([u \in Users |-> t[u][i]], Users)]
  OBVIOUS
<1>6. \A i \in Indexes : sum[i] \in Int /\ cols[i] = sum[i]
  BY <1>4, <1>5
<1>7. SumOf(cols, Indexes) = SumOf(sum, Indexes)
  BY <1>0, <1>6, SumEqual
<1>8. Total(sum) = SumOf(sum, Indexes)
  BY <1>6, TotalType
<1>9. [u \in Users |-> SumOf(t[u], Indexes)] = [u \in Users |-> Total(h[u])]
  <2>1. ASSUME NEW u \in Users PROVE SumOf(t[u], Indexes) = Total(h[u])
    <3>1. t[u] = h[u] /\ \A i \in Indexes : h[u][i] \in Int
      BY <1>1
    <3> QED BY <3>1, TotalType
  <2> QED BY <2>1
<1> QED BY <1>3, <1>5, <1>6, <1>7, <1>8, <1>9

---------------------------------------------------------------------------
(* The inductive invariant *)

\* What a user holds outside the pool: all of his balance once it is updated,
\* before that what is below the level.
Held(u) == IF Updated(u) THEN balance[u].fractions
           ELSE LowPart(balance[u].fractions, Effective(peglevel))

\* What the pool owes a user who has not been updated
Owed(u) == IF Updated(u) THEN 0 ELSE High(balance[u].fractions, Effective(peglevel))

\* The reserve of the last fraction that a user is due
Due(u) == IF Updated(u) THEN 0 ELSE LastReserve(balance[u].fractions, peglevel)

\* The level is the one of the books and of the pool.
LevelInv ==
  /\ GoodLevel(peglevel)
  /\ Partial(peglevel) => peglevel.nShiftLastTotal = exchange[Effective(peglevel)]
  /\ pool.peglevel = peglevel

\* A balance is at the level, or one cycle behind.
BalanceInv(u) ==
  /\ Updated(u) => balance[u].peglevel = peglevel /\ IsValid(balance[u])
  /\ ~Updated(u) => /\ balance[u].peglevel.nCycle = peglevel.nCyclePrev
                    /\ balance[u].peglevel.nCycle < peglevel.nCycle

\* Nothing of the pool is below the level, and its reserve is no more than the
\* users still to come are due.
PoolInv ==
  /\ \A i \in Indexes : i < Effective(peglevel) => pool.fractions[i] = 0
  /\ Partial(peglevel) => pool.nReserve <= SumOf([u \in Users |-> Due(u)], Users)
  /\ ~Partial(peglevel) => pool.nReserve = 0

\* Users and pool have, fraction by fraction, what is in the books.
BooksInv ==
  /\ \A i \in Indexes : SumOf([u \in Users |-> Held(u)[i]], Users) + pool.fractions[i] = exchange[i]
  /\ SumOf([u \in Users |-> Total(balance[u].fractions)], Users) = Total(exchange)

ExchangeInv ==
  /\ TypeOK
  /\ LevelInv
  /\ \A u \in Users : BalanceInv(u)
  /\ PoolInv
  /\ BooksInv

---------------------------------------------------------------------------
(* What the invariant implies *)

\* A user's balance is what he holds and what the pool owes him.
LEMMA HeldLemma ==
  ASSUME TypeOK, LevelInv, NEW u \in Users
  PROVE  /\ \A i \in Indexes : Held(u)[i] \in Nat /\ balance[u].fractions[i] \in Nat
         /\ Owed(u) \in Nat /\ Total(balance[u].fractions) \in Nat /\ Total(Held(u)) \in Nat
         /\ Total(Held(u)) + Owed(u) = Total(balance[u].fractions)
         /\ Partial(peglevel) => Due(u) \in Nat /\ Due(u) <= Owed(u)
<1>1. PICK e : e = Effective(peglevel)
  OBVIOUS
<1>2. e \in Indexes /\ e \in 0..PegSize /\ GoodLevel(peglevel)
  BY <1>1, EffectiveLemma DEF LevelInv
<1>3. PICK f : f = balance[u].fractions
  OBVIOUS
<1>4. f \in Fractions /\ \A i \in Indexes : f[i] \in Nat
  BY <1>3, PegDataType DEF TypeOK
<1>5. /\ Total(f) \in Nat /\ Low(f, e) \in Nat /\ High(f, e) \in Nat /\ High(f, e + 1) \in Nat
      /\ Low(f, e) + High(f, e) = Total(f) /\ High(f, e) = f[e] + High(f, e + 1)
  BY <1>2, <1>4, PartsAtLevel
<1>6. Total(LowPart(f, e)) = Low(f, e)
  <2>1. \A i \in Indexes : f[i] \in Int
    BY <1>4
  <2> QED BY <1>2, <2>1, PartsLemma
<1>7. \A i \in Indexes : LowPart(f, e)[i] \in Nat
  BY <1>4 DEF LowPart
<1>8. CASE Updated(u)
  BY <1>3, <1>4, <1>5, <1>8 DEF Held, Owed, Due
<1>9. CASE ~Updated(u)
  <2>1. Held(u) = LowPart(f, e) /\ Owed(u) = High(f, e) /\ Due(u) = LastReserve(f, peglevel)
    BY <1>1, <1>3, <1>9 DEF Held, Owed, Due
  <2>2. ASSUME Partial(peglevel) PROVE Due(u) \in Nat /\ Due(u) <= Owed(u)
    <3>1. LastReserve(f, peglevel) \in Nat /\ LastReserve(f, peglevel) <= f[e]
      BY <1>1, <1>2, <1>4, <2>2, LastReserveLemma
    <3>2. f[e] \in Nat
      BY <1>2, <1>4
    <3> QED BY <1>5, <2>1, <3>1, <3>2
  <2> QED BY <1>3, <1>4, <1>5, <1>6, <1>7, <2>1, <2>2
<1> QED BY <1>8, <1>9

\* The pool has what it owes, no more and no less.
LEMMA PoolIsOwed ==
  ASSUME ExchangeInv
  PROVE  /\ SumOf([u \in Users |-> Owed(u)], Users) = Total(pool.fractions)
         /\ Total(pool.fractions) \in Nat
<1>0. IsFiniteSet(Users)
  BY ExchangeAssumption
<1>1. TypeOK /\ LevelInv /\ BooksInv
  BY DEF ExchangeInv
<1>2. PICK h : h = [u \in Users |-> Held(u)]
  OBVIOUS
<1>3. \A u \in Users : \A i \in Indexes : h[u][i] \in Int
  BY <1>1, <1>2, HeldLemma
<1>4. PICK sum : sum = [i \in Indexes |-> SumOf([u \in Users |-> Held(u)[i]], Users)]
  OBVIOUS
<1>5. \A i \in Indexes : sum[i] = SumOf([u \in Users |-> h[u][i]], Users)
  <2> TAKE i \in Indexes
  <2>1. [u \in Users |-> h[u][i]] = [u \in Users |-> Held(u)[i]]
    BY <1>2
  <2> QED BY <1>4, <2>1
<1>6. \A i \in Indexes : sum[i] \in Int
  BY <1>3, <1>5, SwapTotals
<1>7. Total(sum) = SumOf([u \in Users |-> Total(h[u])], Users)
  BY <1>3, <1>5, SwapTotals
<1>8. PICK held : held = [u \in Users |-> Total(h[u])]
  OBVIOUS
<1>9. PICK owed : owed = [u \in Users |-> Owed(u)]
  OBVIOUS
<1>10. PICK all : all = [u \in Users |-> Total(balance[u].fractions)]
  OBVIOUS
<1>11. \A u \in Users : held[u] \in Int /\ owed[u] \in Int /\ all[u] = held[u] + owed[u]
  <2> TAKE u \in Users
  <2>1. held[u] = Total(Held(u)) /\ owed[u] = Owed(u) /\ all[u] = Total(balance[u].fractions)
    BY <1>2, <1>8, <1>9, <1>10
  <2> QED BY <1>1, <2>1, HeldLemma
<1>12. SumOf(all, Users) = SumOf(held, Users) + SumOf(owed, Users)
  BY <1>0, <1>11, SumPlus
<1>13. \A i \in Indexes : pool.fractions[i] \in Nat /\ pool.fractions[i] \in Int
  BY <1>1, PegDataType DEF TypeOK
<1>14. \A i \in Indexes : exchange[i] = sum[i] + pool.fractions[i]
  BY <1>1, <1>4 DEF BooksInv
<1>15. Total(exchange) = Total(sum) + Total(pool.fractions)
  BY <1>6, <1>13, <1>14, TotalPlus
<1>16. Total(sum) \in Int /\ Total(pool.fractions) \in Nat
  BY <1>6, <1>13, TotalType, TotalNat
<1>17. SumOf(owed, Users) \in Int
  BY <1>0, <1>11, SumType
<1>18. SumOf(all, Users) = Total(exchange)
  BY <1>1, <1>10 DEF BooksInv
<1> QED BY <1>7, <1>8, <1>9, <1>12, <1>15, <1>16, <1>17, <1>18

\* Once every user is updated the pool is empty and the users have the books.
LEMMA AllUpdated ==
  ASSUME ExchangeInv, \A u \in Users : Updated(u)
  PROVE  /\ Total(pool.fractions) = 0
         /\ \A i \in Indexes : pool.fractions[i] = 0 /\ SumOfUsers(i) = exchange[i]
<1>0. IsFiniteSet(Users)
  BY ExchangeAssumption
<1>1. TypeOK /\ LevelInv /\ BooksInv
  BY DEF ExchangeInv
<1>2. PICK owed : owed = [u \in Users |-> Owed(u)]
  OBVIOUS
<1>3. \A u \in Users : owed[u] = 0
  BY <1>2 DEF Owed
<1>4. SumOf(owed, Users) = 0
  BY <1>0, <1>3, SumZero
<1>5. Total(pool.fractions) = 0
  BY <1>2, <1>4, PoolIsOwed
<1>6. \A i \in Indexes : pool.fractions[i] \in Nat
  BY <1>1, PegDataType DEF TypeOK
<1>7. \A i \in Indexes : pool.fractions[i] <= Total(pool.fractions)
  BY <1>6, TotalNat
<1>8. \A i \in Indexes : pool.fractions[i] = 0
  BY <1>5, <1>6, <1>7
<1>9. \A i \in Indexes : SumOfUsers(i) = exchange[i]
  <2> TAKE i \in Indexes
  <2>1. [u \in Users |-> Held(u)[i]] = [u \in Users |-> balance[u].fractions[i]]
    BY DEF Held
  <2>2. SumOfUsers(i) = SumOf([u \in Users |-> Held(u)[i]], Users)
    BY <2>1 DEF SumOfUsers
  <2>3. SumOf([u \in Users |-> Held(u)[i]], Users) + pool.fractions[i] = exchange[i]
    BY <1>1 DEF BooksInv
  <2>4. PICK col : col = [u \in Users |-> Held(u)[i]]
    OBVIOUS
  <2>5. \A u \in Users : col[u] \in Int
    BY <1>1, <2>4, HeldLemma
  <2>6. SumOf(col, Users) \in Int
    BY <1>0, <2>5, SumType
  <2> QED BY <1>8, <2>2, <2>3, <2>4, <2>6
<1> QED BY <1>5, <1>8, <1>9

\* What is due to the others is no more than the pool owes them.
LEMMA OthersLemma ==
  ASSUME ExchangeInv, NEW u \in Users
  PROVE  /\ Owed(u) \in Nat /\ Owed(u) <= Total(pool.fractions)
         /\ Partial(peglevel) => /\ Due(u) \in Nat /\ SumOf([v \in Users |-> Due(v)], Users) \in Nat
                                 /\ SumOf([v \in Users |-> Due(v)], Users) - Due(u)
                                      <= Total(pool.fractions) - Owed(u)
<1>0. IsFiniteSet(Users)
  BY ExchangeAssumption
<1>1. TypeOK /\ LevelInv
  BY DEF ExchangeInv
<1>2. PICK owed : owed = [v \in Users |-> Owed(v)]
  OBVIOUS
<1>3. \A v \in Users : owed[v] \in Nat /\ owed[v] = Owed(v)
  BY <1>1, <1>2, HeldLemma
<1>4. SumOf(owed, Users) = Total(pool.fractions) /\ Total(pool.fractions) \in Nat
  BY <1>2, PoolIsOwed
<1>5. \A v \in Users : owed[v] <= SumOf(owed, Users)
  BY <1>0, <1>3, SumNat
<1>6. ASSUME Partial(peglevel)
      PROVE  /\ Due(u) \in Nat /\ SumOf([v \in Users |-> Due(v)], Users) \in Nat
             /\ SumOf([v \in Users |-> Due(v)], Users) - Due(u) <= Total(pool.fractions) - Owed(u)
  <2>1. PICK due : due = [v \in Users |-> Due(v)]
    OBVIOUS
  <2>2. \A v \in Users : due[v] \in Nat /\ due[v] = Due(v) /\ due[v] <= owed[v]
    BY <1>1, <1>3, <1>6, <2>1, HeldLemma
  <2>3. SumOf(due, Users) \in Nat
    BY <1>0, <2>2, SumNat
  <2>4. PICK a, b : a = [due EXCEPT ![u] = 0] /\ b = [owed EXCEPT ![u] = 0]
    OBVIOUS
  <2>5. /\ a[u] = 0 /\ b[u] = 0
        /\ \A v \in Users : /\ v # u => a[v] = due[v] /\ b[v] = owed[v]
                            /\ a[v] \in Int /\ b[v] \in Int /\ a[v] <= b[v]
    BY <1>2, <1>3, <2>1, <2>2, <2>4
  <2>6. SumOf(a, Users) = SumOf(due, Users) - due[u] + a[u]
    <3>1. a[u] \in Int /\ \A v \in Users : due[v] \in Int /\ (v # u => a[v] = due[v])
      BY <2>2, <2>5
    <3> QED BY <1>0, <3>1, SumExcept
  <2>7. SumOf(b, Users) = SumOf(owed, Users) - owed[u] + b[u]
    <3>1. b[u] \in Int /\ \A v \in Users : owed[v] \in Int /\ (v # u => b[v] = owed[v])
      BY <1>3, <2>5
    <3> QED BY <1>0, <3>1, SumExcept
  <2>8. SumOf(a, Users) <= SumOf(b, Users)
    BY <1>0, <2>5, SumMonotone
  <2>9. due[u] \in Nat /\ due[u] = Due(u) /\ owed[u] \in Nat /\ owed[u] = Owed(u)
    BY <1>3, <2>2
  <2> QED BY <1>4, <2>1, <2>3, <2>5, <2>6, <2>7, <2>8, <2>9
<1> QED BY <1>3, <1>4, <1>5, <1>6

\* What the pool keeps in reserve at an update is no more than the others are
\* due, and with the liquid of the user no more than the pool has.
LEMMA KeepLemma ==
  ASSUME ExchangeInv, NEW u \in Users, ~Updated(u),
         NEW r, r = UpdatePegBalances(balance[u], pool, peglevel)
  PROVE  /\ r.ok
         /\ Partial(peglevel) => r.pool.nReserve <= SumOf([v \in Users |-> Due(v)], Users) - Due(u)
<1>1. TypeOK /\ LevelInv /\ PoolInv /\ BalanceInv(u)
  BY DEF ExchangeInv
<1>2. PICK b, e, level : b = balance[u] /\ e = Effective(peglevel) /\ level = peglevel
  OBVIOUS
<1>3. b \in PegDatas /\ pool \in PegDatas /\ GoodLevel(level)
  BY <1>1, <1>2 DEF TypeOK, LevelInv
<1>4. r = UpdatePegBalances(b, pool, level) /\ e = Effective(level)
  BY <1>2
<1>5. Partial(level) => r.pool.nReserve = 0 \/ r.pool.nReserve + LastReserve(b.fractions, level) <= pool.nReserve
  BY <1>3, <1>4, UpdateLemma
<1>6. ~Partial(level) => r.pool.nReserve = pool.nReserve
  BY <1>3, <1>4, UpdateLemma
<1>7. Due(u) = LastReserve(b.fractions, level) /\ Owed(u) = High(b.fractions, e)
  BY <1>2 DEF Due, Owed
<1>8. r.pool.nReserve \in Nat
  BY <1>3, <1>4, UpdateLemma
<1>9. pool.nReserve \in Nat /\ Total(pool.fractions) \in Nat
  BY <1>3, PegDataType
<1>10. Owed(u) \in Nat /\ Owed(u) <= Total(pool.fractions)
  BY OthersLemma
<1>11. PICK dues : dues = SumOf([v \in Users |-> Due(v)], Users)
  OBVIOUS
<1>14. ASSUME High(b.fractions, e) + r.pool.nReserve <= Total(pool.fractions) PROVE r.ok
  <2>1. CanUpdate(b, pool, level)
    BY <1>1, <1>2 DEF CanUpdate, BalanceInv, LevelInv
  <2>2. pool.peglevel = level /\ (\A i \in Indexes : i < e => pool.fractions[i] = 0) /\ (~Partial(level) => pool.nReserve = 0)
    BY <1>1, <1>2 DEF PoolInv, LevelInv
  <2> QED BY <1>3, <1>4, <1>14, <2>1, <2>2, UpdateLemma
<1>12. CASE Partial(level)
  <2>1. /\ Due(u) \in Nat /\ dues \in Nat /\ dues - Due(u) <= Total(pool.fractions) - Owed(u)
    BY <1>2, <1>11, <1>12, OthersLemma
  <2>2. pool.nReserve <= dues
    BY <1>1, <1>2, <1>11, <1>12 DEF PoolInv
  <2>3. dues - Due(u) \in Nat
    <3>1. PICK due : due = [v \in Users |-> Due(v)]
      OBVIOUS
    <3>2. IsFiniteSet(Users) /\ \A v \in Users : due[v] \in Nat /\ due[v] = Due(v)
      BY <1>1, <1>2, <1>12, <3>1, HeldLemma, ExchangeAssumption
    <3>3. due[u] <= SumOf(due, Users)
      BY <3>2, SumNat
    <3>4. due[u] = Due(u)
      BY <3>2
    <3> QED BY <1>11, <2>1, <3>1, <3>3, <3>4
  <2>4. r.pool.nReserve <= dues - Due(u)
    BY <1>5, <1>7, <1>8, <1>9, <1>12, <2>1, <2>2, <2>3
  <2>5. High(b.fractions, e) + r.pool.nReserve <= Total(pool.fractions)
    BY <1>7, <1>8, <1>9, <1>10, <2>1, <2>3, <2>4
  <2> QED BY <1>2, <1>11, <1>12, <1>14, <2>4, <2>5
<1>13. CASE ~Partial(level)
  <2>1. pool.nReserve = 0
    BY <1>1, <1>2, <1>13 DEF PoolInv
  <2>2. High(b.fractions, e) + r.pool.nReserve <= Total(pool.fractions)
    BY <1>6, <1>7, <1>9, <1>10, <1>13, <2>1
  <2> QED BY <1>2, <1>13, <1>14, <2>2
<1> QED BY <1>12, <1>13

\* Fractions that are 0 above a level have no liquid there.
LEMMA HighZero ==
  ASSUME NEW f, NEW e \in Indexes, \A i \in Indexes : f[i] \in Int /\ (i > e => f[i] = 0)
  PROVE  High(f, e + 1) = 0
<1>1. e + 1 \in 0..PegSize /\ Indexes \subseteq Int /\ e \in Int
  BY PegSizeAssumption DEF Indexes
<1>2. Total(HighPart(f, e + 1)) = High(f, e + 1)
  BY <1>1, PartsLemma
<1>3. \A i \in Indexes : HighPart(f, e + 1)[i] = 0
  BY <1>1 DEF HighPart
<1>4. IsFiniteSet(Indexes) /\ \A i \in Indexes : HighPart(f, e + 1)[i] \in Int
  BY <1>3, IndexesFinite
<1>5. SumOf(HighPart(f, e + 1), Indexes) = 0
  BY <1>3, <1>4, SumZero
<1> QED BY <1>2, <1>4, <1>5, TotalType

\* The amounts that a valid balance is made of.
LEMMA ValidLemma ==
  ASSUME NEW pd \in PegDatas, NEW level, GoodLevel(level), pd.peglevel = level, IsValid(pd),
         NEW e, e = Effective(level), NEW f, f = pd.fractions
  PROVE  /\ f \in Fractions /\ \A i \in Indexes : f[i] \in Nat /\ f[i] \in Int
         /\ e \in Indexes /\ e \in 0..PegSize /\ e + 1 \in 0..PegSize
         /\ pd.nLiquid \in Nat /\ pd.nReserve \in Nat /\ f[e] \in Nat
         /\ Low(f, e) \in Nat /\ High(f, e) \in Nat /\ High(f, e + 1) \in Nat
         /\ High(f, e) = f[e] + High(f, e + 1)
         /\ pd.nReserve + pd.nLiquid = Low(f, e) + High(f, e)
         /\ Partial(level) => pd.nLiquid >= High(f, e + 1) /\ pd.nReserve >= Low(f, e)
         /\ ~Partial(level) => pd.nLiquid = High(f, e) /\ pd.nReserve = Low(f, e)
<1>1. /\ f \in Fractions /\ \A i \in Indexes : f[i] \in Nat /\ f[i] \in Int
      /\ pd.nLiquid \in Nat /\ pd.nReserve \in Nat
  BY PegDataType
<1>2. e \in Indexes /\ e \in 0..PegSize /\ e + 1 \in 0..PegSize
  BY EffectiveLemma
<1>3. /\ Low(f, e) \in Nat /\ High(f, e) \in Nat /\ High(f, e + 1) \in Nat
      /\ High(f, e) = f[e] + High(f, e + 1) /\ Low(f, e) + High(f, e) = Total(f)
  BY <1>1, <1>2, PartsAtLevel
<1>4. /\ pd.nReserve + pd.nLiquid = Total(f)
      /\ Partial(level) => pd.nLiquid >= High(f, e + 1) /\ pd.nReserve >= Low(f, e)
      /\ ~Partial(level) => pd.nLiquid = High(f, e) /\ pd.nReserve = Low(f, e)
  BY DEF IsValid
<1> QED BY <1>1, <1>2, <1>3, <1>4

\* The liquid part of a valid balance is its own and as much as it counts.
LEMMA LiquidPartLemma ==
  ASSUME NEW pd \in PegDatas, NEW level, GoodLevel(level), pd.peglevel = level, IsValid(pd),
         NEW part, part = LiquidPart(pd, level), NEW amount
  PROVE  /\ part \in Fractions /\ \A i \in Indexes : part[i] <= pd.fractions[i]
         /\ Total(part) = pd.nLiquid
         /\ IsOfKind(pd, level, part, amount, amount, 0)
<1>1. PICK e, f : e = Effective(level) /\ f = pd.fractions
  OBVIOUS
<1>2. /\ f \in Fractions /\ \A i \in Indexes : f[i] \in Nat /\ f[i] \in Int
      /\ e \in Indexes /\ e \in 0..PegSize /\ e + 1 \in 0..PegSize
  BY <1>1, ValidLemma
<1>3. /\ pd.nLiquid \in Nat /\ pd.nReserve \in Nat /\ f[e] \in Nat
      /\ Low(f, e) \in Nat /\ High(f, e) \in Nat /\ High(f, e + 1) \in Nat
      /\ High(f, e) = f[e] + High(f, e + 1)
      /\ pd.nReserve + pd.nLiquid = Low(f, e) + High(f, e)
      /\ Partial(level) => pd.nLiquid >= High(f, e + 1) /\ pd.nReserve >= Low(f, e)
      /\ ~Partial(level) => pd.nLiquid = High(f, e) /\ pd.nReserve = Low(f, e)
  BY <1>1, ValidLemma
<1>4. Total(HighPart(f, e)) = High(f, e) /\ Total(HighPart(f, e + 1)) = High(f, e + 1)
  BY <1>2, PartsLemma
<1>5. Indexes \subseteq Int /\ e \in Int
  BY <1>2 DEF Indexes
<1>6. CASE Partial(level)
  <2>1. PICK hp, last : hp = HighPart(f, e + 1) /\ last = pd.nLiquid - High(f, e + 1)
    OBVIOUS
  <2>2. part = [hp EXCEPT ![e] = last]
    BY <1>1, <1>4, <1>6, <2>1 DEF LiquidPart
  <2>3. last \in Nat /\ last <= f[e]
    BY <1>3, <1>6, <2>1
  <2>4. /\ hp \in [Indexes -> Nat] /\ hp[e] = 0
        /\ \A i \in Indexes : hp[i] \in Int /\ hp[i] <= f[i] /\ (i < e => hp[i] = 0)
    BY <1>2, <1>5, <2>1 DEF HighPart
  <2>5. part[e] = last /\ \A i \in Indexes : i # e => part[i] = hp[i]
    BY <1>2, <2>2, <2>4
  <2>6. part \in Fractions /\ \A i \in Indexes : part[i] <= f[i]
    BY <1>2, <2>2, <2>3, <2>4 DEF Fractions
  <2>7. Total(part) = Total(hp) - hp[e] + part[e]
    <3>1. part[e] \in Int
      BY <2>3, <2>5
    <3> QED BY <1>2, <2>4, <2>5, <3>1, TotalExcept
  <2>8. Total(part) = pd.nLiquid
    BY <1>3, <1>4, <2>1, <2>3, <2>4, <2>5, <2>7
  <2>9. Low(part, e) = 0
    <3>1. \A i \in Indexes : part[i] \in Int
      BY <2>6 DEF Fractions
    <3>2. \A i \in Indexes : i < e => part[i] = 0
      BY <1>5, <2>4, <2>5
    <3> QED BY <1>2, <3>1, <3>2, LowZero
  <2> QED BY <1>1, <2>1, <2>5, <2>6, <2>8, <2>9 DEF IsOfKind
<1>7. CASE ~Partial(level)
  <2>1. part = HighPart(f, e)
    BY <1>1, <1>7 DEF LiquidPart
  <2>2. part \in Fractions /\ \A i \in Indexes : part[i] <= f[i] /\ part[i] \in Int /\ (i < e => part[i] = 0)
    BY <1>2, <1>5, <2>1 DEF HighPart, Fractions
  <2>3. Low(part, e) = 0
    BY <1>2, <2>2, LowZero
  <2> QED BY <1>1, <1>3, <1>4, <1>7, <2>1, <2>2, <2>3 DEF IsOfKind
<1> QED BY <1>6, <1>7

\* So is the reserve part.
LEMMA ReservePartLemma ==
  ASSUME NEW pd \in PegDatas, NEW level, GoodLevel(level), pd.peglevel = level, IsValid(pd),
         NEW part, part = ReservePart(pd, level), NEW amount
  PROVE  /\ part \in Fractions /\ \A i \in Indexes : part[i] <= pd.fractions[i]
         /\ Total(part) = pd.nReserve
         /\ IsOfKind(pd, level, part, amount, 0, amount)
<1>1. PICK e, f : e = Effective(level) /\ f = pd.fractions
  OBVIOUS
<1>2. /\ f \in Fractions /\ \A i \in Indexes : f[i] \in Nat /\ f[i] \in Int
      /\ e \in Indexes /\ e \in 0..PegSize /\ e + 1 \in 0..PegSize
  BY <1>1, ValidLemma
<1>3. /\ pd.nLiquid \in Nat /\ pd.nReserve \in Nat /\ f[e] \in Nat
      /\ Low(f, e) \in Nat /\ High(f, e) \in Nat /\ High(f, e + 1) \in Nat
      /\ High(f, e) = f[e] + High(f, e + 1)
      /\ pd.nReserve + pd.nLiquid = Low(f, e) + High(f, e)
      /\ Partial(level) => pd.nLiquid >= High(f, e + 1) /\ pd.nReserve >= Low(f, e)
      /\ ~Partial(level) => pd.nLiquid = High(f, e) /\ pd.nReserve = Low(f, e)
  BY <1>1, ValidLemma
<1>4. Total(LowPart(f, e)) = Low(f, e)
  BY <1>2, PartsLemma
<1>5. Indexes \subseteq Int /\ e \in Int
  BY <1>2 DEF Indexes
<1>6. PICK lp : lp = LowPart(f, e)
  OBVIOUS
<1>7. /\ lp \in [Indexes -> Nat] /\ lp[e] = 0
      /\ \A i \in Indexes : lp[i] \in Int /\ lp[i] <= f[i] /\ (i > e => lp[i] = 0)
  BY <1>2, <1>5, <1>6 DEF LowPart
<1>8. CASE Partial(level)
  <2>1. PICK last : last = pd.nReserve - Low(f, e)
    OBVIOUS
  <2>2. part = [lp EXCEPT ![e] = last]
    BY <1>1, <1>4, <1>6, <1>8, <2>1 DEF ReservePart
  <2>3. last \in Nat /\ last <= f[e]
    BY <1>3, <1>8, <2>1
  <2>5. part[e] = last /\ \A i \in Indexes : i # e => part[i] = lp[i]
    BY <1>2, <1>7, <2>2
  <2>6. part \in Fractions /\ \A i \in Indexes : part[i] <= f[i]
    BY <1>2, <1>7, <2>2, <2>3 DEF Fractions
  <2>7. Total(part) = Total(lp) - lp[e] + part[e]
    <3>1. part[e] \in Int
      BY <2>3, <2>5
    <3> QED BY <1>2, <1>7, <2>5, <3>1, TotalExcept
  <2>8. Total(part) = pd.nReserve
    BY <1>3, <1>4, <1>6, <1>7, <2>1, <2>3, <2>5, <2>7
  <2>9. High(part, e + 1) = 0
    <3>1. \A i \in Indexes : part[i] \in Int
      BY <2>6 DEF Fractions
    <3>2. \A i \in Indexes : i > e => part[i] = 0
      BY <1>5, <1>7, <2>5
    <3> QED BY <1>2, <3>1, <3>2, HighZero
  <2> QED BY <1>1, <1>8, <2>1, <2>5, <2>6, <2>8, <2>9 DEF IsOfKind
<1>9. CASE ~Partial(level)
  <2>1. part = lp
    BY <1>1, <1>6, <1>9 DEF ReservePart
  <2>2. part \in Fractions
    BY <1>7, <2>1 DEF Fractions
  <2>3. High(part, e + 1) = 0
    BY <1>2, <1>7, <2>1, HighZero
  <2> QED BY <1>1, <1>3, <1>4, <1>6, <1>7, <1>9, <2>1, <2>2, <2>3 DEF IsOfKind
<1> QED BY <1>8, <1>9

\* So every amount that a valid balance shows can be moved.
LEMMA MovesSucceed ==
  ASSUME NEW src \in PegDatas, NEW dst \in PegDatas, NEW level, GoodLevel(level),
         src.peglevel = level, dst.peglevel = level, IsValid(src), IsValid(dst), NEW amount \in Nat
  PROVE  /\ amount <= src.nLiquid => MovedLiquid(src, dst, amount, level).ok
         /\ amount <= src.nReserve => MovedReserve(src, dst, amount, level).ok
<1>1. ASSUME amount <= src.nLiquid PROVE MovedLiquid(src, dst, amount, level).ok
  <2>1. PICK part : part = LiquidPart(src, level)
    OBVIOUS
  <2>2. /\ part \in Fractions /\ \A i \in Indexes : part[i] <= src.fractions[i]
        /\ Total(part) = src.nLiquid /\ IsOfKind(src, level, part, amount, amount, 0)
    BY <2>1, LiquidPartLemma
  <2>3. MovePart(src, dst, part, RatioPart(part, amount), amount, 0).ok
    BY <1>1, <2>2, MoveSucceeds
  <2> QED BY <2>1, <2>3 DEF MovedLiquid
<1>2. ASSUME amount <= src.nReserve PROVE MovedReserve(src, dst, amount, level).ok
  <2>1. PICK part : part = ReservePart(src, level)
    OBVIOUS
  <2>2. /\ part \in Fractions /\ \A i \in Indexes : part[i] <= src.fractions[i]
        /\ Total(part) = src.nReserve /\ IsOfKind(src, level, part, amount, 0, amount)
    BY <2>1, ReservePartLemma
  <2>3. MovePart(src, dst, part, RatioPart(part, amount), 0, amount).ok
    BY <1>2, <2>2, MoveSucceeds
  <2> QED BY <2>1, <2>3 DEF MovedReserve
<1> QED BY <1>1, <1>2

---------------------------------------------------------------------------
(* The invariant is inductive *)

\* A balance split at a level is well formed, and valid at a whole level.
LEMMA SplitLemma ==
  ASSUME NEW f \in Fractions, NEW level, GoodLevel(level), NEW id \in Nat,
         NEW pd, pd = Split(f, level, id)
  PROVE  /\ pd \in PegDatas /\ pd.fractions = f /\ pd.peglevel = level
         /\ ~Partial(level) => IsValid(pd)
<1>1. PICK e : e = Effective(level)
  OBVIOUS
<1>2. e \in Indexes /\ e \in 0..PegSize
  BY <1>1, EffectiveLemma
<1>3. PICK fr : fr = LevelLowPart(f, level)
  OBVIOUS
<1>4. \A i \in Indexes : f[i] \in Nat /\ f[i] \in Int
  BY DEF Fractions
<1>5. \A i \in Indexes : fr[i] = IF i < e THEN f[i]
                                 ELSE IF i = e /\ Partial(level) THEN LastReserve(f, level) ELSE 0
  BY <1>1, <1>3 DEF LevelLowPart
<1>6. Partial(level) => LastReserve(f, level) \in Nat /\ LastReserve(f, level) <= f[e]
  BY <1>1, LastReserveLemma
<1>7. \A i \in Indexes : fr[i] \in Nat /\ fr[i] \in Int /\ fr[i] <= f[i]
  BY <1>4, <1>5, <1>6
<1>8. Total(fr) \in Nat /\ Total(f) \in Nat
  BY <1>4, <1>7, TotalNat
<1>9. Total(fr) <= Total(f)
  <2>1. IsFiniteSet(Indexes)
    BY IndexesFinite
  <2>2. SumOf(fr, Indexes) <= SumOf(f, Indexes)
    BY <1>4, <1>7, <2>1, SumMonotone
  <2> QED BY <1>4, <1>7, <2>2, TotalType
<1>10. pd = [fractions |-> f, peglevel |-> level, nReserve |-> Total(fr),
             nLiquid |-> Total(f) - Total(fr), nId |-> id]
  BY <1>3 DEF Split
<1>11. pd \in PegDatas
  <2>1. level \in PegLevels /\ Total(f) - Total(fr) \in Nat
    BY <1>8, <1>9 DEF GoodLevel
  <2> QED BY <1>8, <1>10, <2>1 DEF PegDatas
<1>12. ASSUME ~Partial(level) PROVE IsValid(pd)
  <2>1. Total(LowPart(f, e)) = Low(f, e) /\ Low(f, e) + High(f, e) = Total(f)
    BY <1>2, <1>4, PartsLemma
  <2>2. \A i \in Indexes : LowPart(f, e)[i] = fr[i]
    BY <1>5, <1>12 DEF LowPart
  <2>3. Total(LowPart(f, e)) = Total(fr)
    BY <1>7, <2>2, TotalEqual
  <2>4. Low(f, e) \in Nat /\ High(f, e) \in Nat
    BY <1>2, <1>4, TotalNat
  <2>5. pd.nReserve = Low(f, e) /\ pd.nLiquid = High(f, e)
    BY <1>8, <1>10, <2>1, <2>3, <2>4
  <2>6. LevelIsValid(level)
    BY DEF GoodLevel
  <2> QED BY <1>1, <1>10, <1>12, <2>1, <2>4, <2>5, <2>6 DEF IsValid
<1> QED BY <1>10, <1>11, <1>12

\* Books without a distortion have a whole level.
LEMMA WholeLevel ==
  ASSUME NEW cycle \in Nat, NEW cyclePrev \in Nat, NEW supply \in Nat, NEW f \in Fractions,
         NEW level, level = CPegLevel(cycle, cyclePrev, supply, f, Zero)
  PROVE  GoodLevel(level) /\ ~Partial(level) /\ level.nCycle = cycle
<1>1. Plus(f, Zero) = f
  BY DEF Plus, Zero, Fractions
<1>2. PICK s : s = Least(supply, PegSize - 1)
  OBVIOUS
<1>3. s \in Indexes /\ s \in 0..PegSize
  BY <1>2, PegSizeAssumption DEF Least, Indexes
<1>4. High(f, s) \in Nat
  <2>1. \A i \in Indexes : f[i] \in Nat
    BY DEF Fractions
  <2> QED BY <1>3, <2>1, TotalNat
<1>5. PICK d : d = High(f, s) - High(f, s)
  OBVIOUS
<1>6. d <= 0 /\ ~(d > 0)
  BY <1>4, <1>5
<1>7. level = [nCycle |-> cycle, nCyclePrev |-> cyclePrev, nSupply |-> s, nShift |-> 0,
               nShiftLastPart |-> 0, nShiftLastTotal |-> 0]
  BY <1>1, <1>2, <1>5, <1>6 DEF CPegLevel
<1>8. level \in PegLevels
  BY <1>3, <1>7 DEF PegLevels
<1>9. s + 0 < PegSize
  BY <1>3, PegSizeAssumption DEF Indexes
<1> QED BY <1>7, <1>8, <1>9 DEF GoodLevel, Partial, LevelIsValid, Effective

\* The reserve that all users are due of the last fraction is at least the
\* reserve of the level.
LEMMA DueLemma ==
  ASSUME NEW level, GoodLevel(level), Partial(level), NEW h, \A u \in Users : h[u] \in Fractions,
         SumOf([u \in Users |-> h[u][Effective(level)]], Users) = level.nShiftLastTotal
  PROVE  level.nShiftLastPart <= SumOf([u \in Users |-> LastReserve(h[u], level)], Users)
<1>0. IsFiniteSet(Users)
  BY ExchangeAssumption
<1>1. PICK e, part, total : e = Effective(level) /\ part = level.nShiftLastPart /\ total = level.nShiftLastTotal
  OBVIOUS
<1>2. e \in Indexes /\ part \in Nat /\ total \in Nat /\ total > 0
  BY <1>1, EffectiveLemma DEF Partial
<1>3. PICK at, due : at = [u \in Users |-> h[u][e]] /\ due = [u \in Users |-> LastReserve(h[u], level)]
  OBVIOUS
<1>4. \A u \in Users : at[u] \in Nat /\ due[u] \in Nat /\ at[u] * part <= total * due[u]
  <2> TAKE u \in Users
  <2>1. h[u] \in Fractions
    OBVIOUS
  <2>2. /\ LastReserve(h[u], level) \in Nat
        /\ h[u][e] * part <= total * LastReserve(h[u], level)
    BY <1>1, <2>1, LastReserveLemma
  <2>3. h[u][e] \in Nat
    BY <1>2, <2>1 DEF Fractions
  <2> QED BY <1>3, <2>2, <2>3
<1>5. PICK a, b : a = [u \in Users |-> part * at[u]] /\ b = [u \in Users |-> total * due[u]]
  OBVIOUS
<1>6. \A u \in Users : at[u] \in Int /\ due[u] \in Int /\ a[u] = part * at[u] /\ b[u] = total * due[u]
  BY <1>4, <1>5
<1>7. \A u \in Users : a[u] \in Int /\ b[u] \in Int /\ a[u] <= b[u]
  <2> TAKE u \in Users
  <2>1. at[u] \in Nat /\ due[u] \in Nat /\ at[u] * part <= total * due[u]
    BY <1>4
  <2>2. a[u] = at[u] * part
    BY <1>2, <1>6, <2>1
  <2> QED BY <1>2, <1>6, <2>1, <2>2
<1>8. part \in Int /\ total \in Int
  BY <1>2
<1>9. SumOf(a, Users) = part * SumOf(at, Users)
  <2>1. \A u \in Users : at[u] \in Int /\ a[u] = part * at[u]
    BY <1>6
  <2> QED BY <1>0, <1>8, <2>1, SumScale
<1>10. SumOf(b, Users) = total * SumOf(due, Users)
  <2>1. \A u \in Users : due[u] \in Int /\ b[u] = total * due[u]
    BY <1>6
  <2> QED BY <1>0, <1>8, <2>1, SumScale
<1>11. SumOf(a, Users) <= SumOf(b, Users)
  BY <1>0, <1>7, SumMonotone
<1>12. SumOf(at, Users) = total
  BY <1>1, <1>3
<1>13. SumOf(due, Users) \in Nat
  BY <1>0, <1>4, SumNat
<1>14. PICK x \in Nat : x = SumOf(due, Users)
  BY <1>13
<1>15. part * total <= total * x
  BY <1>9, <1>10, <1>11, <1>12, <1>14
<1>16. part <= x
  <2> SUFFICES ASSUME x + 1 <= part PROVE FALSE
    BY <1>2
  <2>1. total * (x + 1) <= total * part /\ part * total = total * part
    BY <1>2, ProductLemma
  <2>2. total * (x + 1) = total * x + total
    BY <1>2
  <2>3. total * x \in Nat /\ total * part \in Nat
    BY <1>2
  <2> QED BY <1>2, <1>15, <2>1, <2>2, <2>3
<1> QED BY <1>1, <1>3, <1>14, <1>16

\* h is g but for user u.
DifferAt(g, h, u) == h[u] \in Int /\ \A x \in Users : g[x] \in Int /\ (x # u => h[x] = g[x])

\* The sum over all users when one changes
LEMMA SumOneUser ==
  ASSUME NEW g, NEW h, NEW u \in Users, DifferAt(g, h, u)
  PROVE  /\ SumOf(g, Users) \in Int /\ SumOf(h, Users) \in Int /\ g[u] \in Int /\ h[u] \in Int
         /\ SumOf(h, Users) = SumOf(g, Users) - g[u] + h[u]
<1>0. IsFiniteSet(Users)
  BY ExchangeAssumption
<1>1. h[u] \in Int /\ \A x \in Users : g[x] \in Int /\ (x # u => h[x] = g[x])
  BY DEF DifferAt
<1>2. SumOf(h, Users) = SumOf(g, Users) - g[u] + h[u]
  BY <1>0, <1>1, SumExcept
<1>3. SumOf(g, Users) \in Int
  BY <1>0, <1>1, SumType
<1>4. g[u] \in Int
  BY <1>1
<1> QED BY <1>1, <1>2, <1>3, <1>4

\* From g to h users u and v trade.
TradeBetween(g, h, u, v) ==
  /\ \A x \in Users : g[x] \in Int /\ h[x] \in Int /\ (x # u /\ x # v => h[x] = g[x])
  /\ h[u] + h[v] = g[u] + g[v]

\* A trade leaves the sum over all users alone.
LEMMA SumTrade ==
  ASSUME NEW g, NEW h, NEW u \in Users, NEW v \in Users, u # v, TradeBetween(g, h, u, v)
  PROVE  SumOf(h, Users) = SumOf(g, Users)
<1>1. PICK k : k = [x \in Users |-> IF x = u THEN h[u] ELSE g[x]]
  OBVIOUS
<1>2. DifferAt(g, k, u)
  BY <1>1 DEF DifferAt, TradeBetween
<1>7. DifferAt(k, h, v)
  BY <1>1 DEF DifferAt, TradeBetween
<1>3. /\ SumOf(k, Users) = SumOf(g, Users) - g[u] + k[u] /\ SumOf(g, Users) \in Int
      /\ g[u] \in Int /\ k[u] \in Int
  BY <1>2, SumOneUser
<1>4. /\ SumOf(h, Users) = SumOf(k, Users) - k[v] + h[v] /\ SumOf(k, Users) \in Int
      /\ k[v] \in Int /\ h[v] \in Int
  BY <1>7, SumOneUser
<1>5. k[u] = h[u] /\ k[v] = g[v]
  BY <1>1
<1>6. h[u] + h[v] = g[u] + g[v]
  BY DEF TradeBetween
<1>8. PICK a \in Int, b \in Int, c \in Int, d \in Int, t \in Int :
        a = g[u] /\ b = g[v] /\ c = h[u] /\ d = h[v] /\ t = SumOf(g, Users)
  BY <1>3, <1>4, <1>5
<1>9. SumOf(h, Users) = ((t - a) + c) - b + d
  BY <1>3, <1>4, <1>5, <1>8
<1>10. c + d = a + b
  BY <1>6, <1>8
<1> QED BY <1>8, <1>9, <1>10

\* The first balances are at a whole level and make up the books.
LEMMA InitLemma ==
  ASSUME Init PROVE ExchangeInv
<1>0. IsFiniteSet(Users)
  BY ExchangeAssumption
<1>1. PICK holding \in [Users -> Holdings], supply \in Supplies :
        /\ exchange = [i \in Indexes |-> SumOf([u \in Users |-> holding[u][i]], Users)]
        /\ peglevel = CPegLevel(1, 0, supply, exchange, Zero)
        /\ balance = [u \in Users |-> Split(holding[u], peglevel, 0)]
  BY DEF Init
<1>2. pool = [fractions |-> Zero, peglevel |-> peglevel, nReserve |-> 0, nLiquid |-> 0, nId |-> 0]
  BY DEF Init
<1>3. supply \in Nat /\ \A u \in Users : holding[u] \in Fractions /\ \A i \in Indexes : holding[u][i] \in Nat
  BY ExchangeAssumption DEF Fractions
<1>4. exchange \in Fractions
  <2>1. ASSUME NEW i \in Indexes PROVE SumOf([u \in Users |-> holding[u][i]], Users) \in Nat
    <3>1. PICK col : col = [u \in Users |-> holding[u][i]]
      OBVIOUS
    <3>2. \A u \in Users : col[u] \in Nat
      BY <1>3, <3>1
    <3>3. SumOf(col, Users) \in Nat
      BY <1>0, <3>2, SumNat
    <3> QED BY <3>1, <3>3
  <2> QED BY <1>1, <2>1 DEF Fractions
<1>5. GoodLevel(peglevel) /\ ~Partial(peglevel) /\ peglevel.nCycle = 1
  <2>1. peglevel = CPegLevel(1, 0, supply, exchange, Zero)
    BY <1>1
  <2>2. supply \in Nat /\ 0 \in Nat /\ 1 \in Nat
    BY <1>3
  <2> QED BY <1>4, <2>1, <2>2, WholeLevel
<1>6. \A u \in Users : /\ balance[u] \in PegDatas /\ balance[u].fractions = holding[u]
                       /\ balance[u].peglevel = peglevel /\ IsValid(balance[u])
  <2> TAKE u \in Users
  <2>1. balance[u] = Split(holding[u], peglevel, 0) /\ holding[u] \in Fractions
    BY <1>1, <1>3
  <2> QED BY <1>5, <2>1, SplitLemma
<1>7. \A u \in Users : Updated(u)
  BY <1>6 DEF Updated
<1>8. peglevel \in PegLevels /\ Zero \in Fractions
  BY <1>5 DEF GoodLevel, Zero, Fractions
<1>9. TypeOK
  <2>1. pool \in PegDatas
    BY <1>2, <1>8 DEF PegDatas
  <2>2. balance \in [Users -> PegDatas]
    BY <1>1, <1>6
  <2> QED BY <1>4, <1>8, <2>1, <2>2 DEF TypeOK
<1>10. LevelInv
  BY <1>2, <1>5 DEF LevelInv
<1>11. ASSUME NEW u \in Users PROVE BalanceInv(u)
  BY <1>6, <1>7 DEF BalanceInv
<1>12. \A i \in Indexes : pool.fractions[i] = 0
  BY <1>2 DEF Zero
<1>13. PoolInv
  BY <1>2, <1>5, <1>12 DEF PoolInv
<1>14. BooksInv
  <2>1. ASSUME NEW i \in Indexes
        PROVE  SumOf([u \in Users |-> Held(u)[i]], Users) + pool.fractions[i] = exchange[i]
    <3>1. [u \in Users |-> Held(u)[i]] = [u \in Users |-> holding[u][i]]
      BY <1>6, <1>7 DEF Held
    <3>2. SumOf([u \in Users |-> Held(u)[i]], Users) = exchange[i]
      BY <1>1, <3>1
    <3>3. exchange[i] \in Nat
      BY <1>4 DEF Fractions
    <3> QED BY <1>12, <3>2, <3>3
  <2>2. SumOf([u \in Users |-> Total(balance[u].fractions)], Users) = Total(exchange)
    <3>1. [u \in Users |-> Total(balance[u].fractions)] = [u \in Users |-> Total(holding[u])]
      BY <1>6
    <3>2. \A u \in Users : \A i \in Indexes : holding[u][i] \in Int
      BY <1>3
    <3>3. \A i \in Indexes : exchange[i] = SumOf([u \in Users |-> holding[u][i]], Users)
      BY <1>1
    <3>4. Total(exchange) = SumOf([u \in Users |-> Total(holding[u])], Users)
      BY <3>2, <3>3, SwapTotals
    <3> QED BY <3>1, <3>4
  <2> QED BY <2>1, <2>2 DEF BooksInv
<1> QED BY <1>9, <1>10, <1>11, <1>13, <1>14 DEF ExchangeInv

\* A good trade between two updated users preserves the invariant.
LEMMA TradeLemma ==
  ASSUME ExchangeInv, NEW u \in Users, NEW v \in Users, u # v, Updated(u), Updated(v),
         NEW m, Trade(u, v, m), GoodTrade(balance[u], balance[v], m)
  PROVE  ExchangeInv'
<1>1. TypeOK /\ LevelInv /\ (\A w \in Users : BalanceInv(w)) /\ PoolInv /\ BooksInv
  BY DEF ExchangeInv
<1>0. /\ m.src \in PegDatas /\ m.dst \in PegDatas
      /\ m.src.peglevel = peglevel /\ m.dst.peglevel = peglevel /\ IsValid(m.src) /\ IsValid(m.dst)
      /\ \A i \in Indexes : m.src.fractions[i] + m.dst.fractions[i]
                              = balance[u].fractions[i] + balance[v].fractions[i]
  BY <1>1 DEF GoodTrade, BalanceInv
<1>2. /\ balance' = [balance EXCEPT ![u] = m.src, ![v] = m.dst]
      /\ pool' = pool /\ exchange' = exchange /\ peglevel' = peglevel
  BY DEF Trade
<1>3. /\ balance \in [Users -> PegDatas]
      /\ balance'[u] = m.src /\ balance'[v] = m.dst
      /\ \A w \in Users : w # u /\ w # v => balance'[w] = balance[w]
  BY <1>1, <1>2 DEF TypeOK
<1>4. TypeOK'
  BY <1>0, <1>1, <1>2 DEF TypeOK
<1>5. LevelInv'
  BY <1>1, <1>2 DEF LevelInv
<1>6. \A w \in Users : Updated(w)' <=> Updated(w)
  BY <1>0, <1>2, <1>3 DEF Updated
<1>7. ASSUME NEW w \in Users PROVE BalanceInv(w)'
  <2>1. CASE w = u
    BY <1>0, <1>2, <1>3, <1>6, <2>1 DEF BalanceInv
  <2>2. CASE w = v
    BY <1>0, <1>2, <1>3, <1>6, <2>2 DEF BalanceInv
  <2>3. CASE w # u /\ w # v
    BY <1>1, <1>2, <1>3, <1>6, <2>3 DEF BalanceInv
  <2> QED BY <2>1, <2>2, <2>3
<1>8. \A w \in Users : Due(w)' = Due(w)
  BY <1>2, <1>3, <1>6 DEF Due
<1>9. PoolInv'
  <2>1. [w \in Users |-> Due(w)]' = [w \in Users |-> Due(w)]
    BY <1>8
  <2> QED BY <1>1, <1>2, <2>1 DEF PoolInv
<1>10. \A w \in Users : w # u /\ w # v => Held(w)' = Held(w)
  BY <1>2, <1>3, <1>6 DEF Held
<1>11. /\ Held(u)' = m.src.fractions /\ Held(v)' = m.dst.fractions
       /\ Held(u) = balance[u].fractions /\ Held(v) = balance[v].fractions
  BY <1>3, <1>6 DEF Held
<1>12. \A w \in Users : \A i \in Indexes : /\ Held(w)[i] \in Int /\ Held(w)'[i] \in Int
                                           /\ balance[w].fractions[i] \in Int /\ balance'[w].fractions[i] \in Int
  <2>1. ASSUME NEW w \in Users, NEW i \in Indexes PROVE Held(w)[i] \in Int /\ balance[w].fractions[i] \in Int
    BY <1>1, HeldLemma
  <2>2. ASSUME NEW i \in Indexes PROVE m.src.fractions[i] \in Int /\ m.dst.fractions[i] \in Int
    BY <1>0, PegDataType
  <2> QED BY <1>3, <1>10, <1>11, <2>1, <2>2
<1>13. ASSUME NEW i \in Indexes
       PROVE  SumOf([w \in Users |-> Held(w)'[i]], Users) + pool'.fractions[i] = exchange'[i]
  <2>1. PICK g, h : g = [w \in Users |-> Held(w)[i]] /\ h = [w \in Users |-> Held(w)'[i]]
    OBVIOUS
  <2>2. \A w \in Users : g[w] \in Int /\ h[w] \in Int /\ (w # u /\ w # v => h[w] = g[w])
    BY <1>10, <1>12, <2>1
  <2>3. h[u] + h[v] = g[u] + g[v]
    BY <1>0, <1>11, <2>1
  <2>5. TradeBetween(g, h, u, v)
    BY <2>2, <2>3 DEF TradeBetween
  <2>4. SumOf(h, Users) = SumOf(g, Users)
    BY <2>5, SumTrade
  <2> QED BY <1>1, <1>2, <2>1, <2>4 DEF BooksInv
<1>14. SumOf([w \in Users |-> Total(balance'[w].fractions)], Users) = Total(exchange')
  <2>1. PICK g, h : /\ g = [w \in Users |-> Total(balance[w].fractions)]
                    /\ h = [w \in Users |-> Total(balance'[w].fractions)]
    OBVIOUS
  <2>2. \A w \in Users : g[w] \in Int /\ h[w] \in Int /\ (w # u /\ w # v => h[w] = g[w])
    <3> TAKE w \in Users
    <3>1. /\ \A i \in Indexes : balance[w].fractions[i] \in Int
          /\ \A i \in Indexes : balance'[w].fractions[i] \in Int
      BY <1>12
    <3>2. Total(balance[w].fractions) \in Int /\ Total(balance'[w].fractions) \in Int
      BY <3>1, TotalType
    <3> QED BY <1>3, <2>1, <3>2
  <2>3. h[u] + h[v] = g[u] + g[v]
    <3>1. PICK a, b, c, d : /\ a = balance[u].fractions /\ b = balance[v].fractions
                            /\ c = m.src.fractions /\ d = m.dst.fractions
      OBVIOUS
    <3>2. \A i \in Indexes : a[i] \in Int /\ b[i] \in Int /\ c[i] \in Int /\ d[i] \in Int /\ c[i] + d[i] = a[i] + b[i]
      BY <1>0, <1>3, <1>12, <3>1
    <3>3. PICK s : s = [i \in Indexes |-> a[i] + b[i]]
      OBVIOUS
    <3>4. \A i \in Indexes : s[i] = a[i] + b[i]
      BY <3>3
    <3>5. Total(s) = Total(a) + Total(b)
      BY <3>2, <3>4, TotalPlus
    <3>6. \A i \in Indexes : s[i] = c[i] + d[i]
      BY <3>2, <3>4
    <3>7. Total(s) = Total(c) + Total(d)
      BY <3>2, <3>6, TotalPlus
    <3> QED BY <1>3, <2>1, <3>1, <3>5, <3>7
  <2>5. TradeBetween(g, h, u, v)
    BY <2>2, <2>3 DEF TradeBetween
  <2>4. SumOf(h, Users) = SumOf(g, Users)
    BY <2>5, SumTrade
  <2> QED BY <1>1, <1>2, <2>1, <2>4 DEF BooksInv
<1>15. BooksInv'
  BY <1>13, <1>14 DEF BooksInv
<1> QED BY <1>4, <1>5, <1>7, <1>9, <1>15 DEF ExchangeInv

\* So is movecoins.
LEMMA MovedCoinsLemma ==
  ASSUME NEW src \in PegDatas, NEW dst \in PegDatas, NEW level, GoodLevel(level),
         src.peglevel = level, dst.peglevel = level, NEW amount \in Nat,
         NEW m, m = MovedCoins(src, dst, amount, level), MoveIsValid(m)
  PROVE  GoodTrade(src, dst, m)
<1>1. /\ src.fractions \in Fractions /\ dst.fractions \in Fractions
      /\ src.nId \in Nat /\ dst.nId \in Nat
  BY PegDataType
<1>2. PICK mv : mv = RatioPart(src.fractions, amount)
  OBVIOUS
<1>3. mv \in Fractions /\ \A i \in Indexes : mv[i] <= src.fractions[i]
  BY <1>1, <1>2, RatioPartIsExact
<1>4. PICK fs, fd : fs = Minus(src.fractions, mv) /\ fd = Plus(dst.fractions, mv)
  OBVIOUS
<1>5. \A i \in Indexes : src.fractions[i] \in Nat /\ dst.fractions[i] \in Nat /\ mv[i] \in Nat
  BY <1>1, <1>3 DEF Fractions
<1>6. \A i \in Indexes : /\ fs[i] \in Nat /\ fs[i] = src.fractions[i] - mv[i]
                         /\ fd[i] \in Nat /\ fd[i] = dst.fractions[i] + mv[i]
  BY <1>3, <1>4, <1>5 DEF Minus, Plus
<1>7. fs \in Fractions /\ fd \in Fractions
  BY <1>4, <1>6 DEF Fractions, Minus, Plus
<1>8. PICK s, d : s = Split(fs, level, src.nId) /\ d = Split(fd, level, dst.nId)
  OBVIOUS
<1>9. s \in PegDatas /\ s.fractions = fs /\ s.peglevel = level
  BY <1>1, <1>7, <1>8, SplitLemma
<1>10. d \in PegDatas /\ d.fractions = fd /\ d.peglevel = level
  BY <1>1, <1>7, <1>8, SplitLemma
<1>11. m.src = [s EXCEPT !.peglevel = level] /\ m.dst = [d EXCEPT !.peglevel = level]
  BY <1>2, <1>4, <1>8 DEF MovedCoins
<1>12. m.src = s /\ m.dst = d
  BY <1>9, <1>10, <1>11 DEF PegDatas
<1>13. \A i \in Indexes : fs[i] + fd[i] = src.fractions[i] + dst.fractions[i]
  BY <1>5, <1>6
<1> QED BY <1>9, <1>10, <1>12, <1>13 DEF GoodTrade, MoveIsValid

\* Trades between updated users preserve the invariant.
LEMMA TradeAnyLemma ==
  ASSUME ExchangeInv, NEW u \in Users, NEW v \in Users, u # v, Updated(u), Updated(v), TradeAny(u, v)
  PROVE  ExchangeInv'
<1>1. PICK amount \in Amounts : \/ MoveLiquid(u, v, amount)
                                \/ MoveReserve(u, v, amount)
                                \/ MoveCoins(u, v, amount, FALSE)
  BY DEF TradeAny
<1>2. amount \in Nat
  BY ExchangeAssumption
<1>3. PICK src, dst, level : src = balance[u] /\ dst = balance[v] /\ level = peglevel
  OBVIOUS
<1>4. /\ src \in PegDatas /\ dst \in PegDatas /\ GoodLevel(level)
      /\ src.peglevel = level /\ dst.peglevel = level /\ IsValid(src) /\ IsValid(dst)
  BY <1>3 DEF ExchangeInv, TypeOK, LevelInv, BalanceInv
<1>5. src.nLiquid \in Nat /\ src.nReserve \in Nat
  BY <1>4, PegDataType
<1>6. CASE MoveLiquid(u, v, amount)
  <2>1. PICK r : r = MovedLiquid(src, dst, amount, level) /\ r.ok /\ Trade(u, v, r.move)
    BY <1>3, <1>6 DEF MoveLiquid
  <2>2. amount <= src.nLiquid
    BY <1>3, <1>6 DEF MoveLiquid
  <2>3. PICK part : part = LiquidPart(src, level)
    OBVIOUS
  <2>4. part \in Fractions
    BY <1>4, <2>3, LiquidPartLemma
  <2>5. part \in [Indexes -> Int] /\ 0 \in Nat /\ 0 <= src.nReserve
    BY <1>5, <2>4 DEF Fractions
  <2>6. r = MovePart(src, dst, part, RatioPart(part, amount), amount, 0)
    BY <2>1, <2>3 DEF MovedLiquid
  <2>7. GoodTrade(src, dst, r.move)
    BY <1>2, <1>4, <2>1, <2>2, <2>5, <2>6, MovePartLemma
  <2> QED BY <1>3, <2>1, <2>7, TradeLemma
<1>7. CASE MoveReserve(u, v, amount)
  <2>1. PICK r : r = MovedReserve(src, dst, amount, level) /\ r.ok /\ Trade(u, v, r.move)
    BY <1>3, <1>7 DEF MoveReserve
  <2>2. amount <= src.nReserve
    BY <1>3, <1>7 DEF MoveReserve
  <2>3. PICK part : part = ReservePart(src, level)
    OBVIOUS
  <2>4. part \in Fractions
    BY <1>4, <2>3, ReservePartLemma
  <2>5. part \in [Indexes -> Int] /\ 0 \in Nat /\ 0 <= src.nLiquid
    BY <1>5, <2>4 DEF Fractions
  <2>6. r = MovePart(src, dst, part, RatioPart(part, amount), 0, amount)
    BY <2>1, <2>3 DEF MovedReserve
  <2>7. GoodTrade(src, dst, r.move)
    BY <1>2, <1>4, <2>1, <2>2, <2>5, <2>6, MovePartLemma
  <2> QED BY <1>3, <2>1, <2>7, TradeLemma
<1>8. CASE MoveCoins(u, v, amount, FALSE)
  <2>1. PICK m : m = MovedCoins(src, dst, amount, level) /\ MoveIsValid(m) /\ Trade(u, v, m)
    BY <1>3, <1>8 DEF MoveCoins
  <2>2. GoodTrade(src, dst, m)
    BY <1>2, <1>4, <2>1, MovedCoinsLemma
  <2> QED BY <1>3, <2>1, <2>2, TradeLemma
<1> QED BY <1>1, <1>6, <1>7, <1>8

\* An update preserves the invariant.
LEMMA UpdateBalanceLemma ==
  ASSUME ExchangeInv, NEW u \in Users, UpdateBalance(u)
  PROVE  ExchangeInv'
<1>1. TypeOK /\ LevelInv /\ (\A w \in Users : BalanceInv(w)) /\ PoolInv /\ BooksInv
  BY DEF ExchangeInv
<1>2. PICK r : /\ r = UpdatePegBalances(balance[u], pool, peglevel) /\ r.ok
               /\ balance' = [balance EXCEPT ![u] = r.balance] /\ pool' = r.pool
               /\ exchange' = exchange /\ peglevel' = peglevel
  BY DEF UpdateBalance
<1>3. PICK b, e, level : b = balance[u] /\ e = Effective(peglevel) /\ level = peglevel
  OBVIOUS
<1>4. /\ b \in PegDatas /\ pool \in PegDatas /\ GoodLevel(level) /\ level \in PegLevels
      /\ r = UpdatePegBalances(b, pool, level) /\ e = Effective(level)
  BY <1>1, <1>2, <1>3 DEF TypeOK, LevelInv
<1>5. \A i \in Indexes :
        /\ r.balance.fractions[i] + r.pool.fractions[i] = LowPart(b.fractions, e)[i] + pool.fractions[i]
        /\ r.pool.fractions[i] <= pool.fractions[i]
  BY <1>4, UpdateLemma
<1>6. /\ r.balance.peglevel = level /\ r.pool.peglevel = pool.peglevel
      /\ ~Partial(level) => r.pool.nReserve = pool.nReserve
  BY <1>4, UpdateLemma
<1>7. /\ r.balance \in PegDatas /\ r.pool \in PegDatas
      /\ Total(r.balance.fractions) = Total(b.fractions)
      /\ IsValid(r.balance) /\ CanUpdate(b, pool, level)
  BY <1>2, <1>4, UpdateLemma
<1>8. ~Updated(u)
  <2>1. b.peglevel.nCycle \in Nat /\ level.nCycle \in Nat
    BY <1>4 DEF PegDatas, PegLevels
  <2> QED BY <1>3, <1>7, <2>1 DEF CanUpdate, Updated
<1>9. Partial(level) => r.pool.nReserve <= SumOf([v \in Users |-> Due(v)], Users) - Due(u)
  BY <1>2, <1>3, <1>8, KeepLemma
<1>10. /\ balance \in [Users -> PegDatas]
       /\ balance'[u] = r.balance
       /\ \A w \in Users : w # u => balance'[w] = balance[w]
  BY <1>1, <1>2 DEF TypeOK
<1>11. TypeOK'
  BY <1>1, <1>2, <1>7 DEF TypeOK
<1>12. LevelInv'
  BY <1>1, <1>2, <1>6 DEF LevelInv
<1>13. Updated(u)' /\ \A w \in Users : w # u => (Updated(w)' <=> Updated(w))
  BY <1>2, <1>3, <1>6, <1>10 DEF Updated
<1>14. ASSUME NEW w \in Users PROVE BalanceInv(w)'
  <2>1. CASE w = u
    BY <1>2, <1>3, <1>6, <1>7, <1>10, <1>13, <2>1 DEF BalanceInv
  <2>2. CASE w # u
    BY <1>1, <1>2, <1>10, <1>13, <2>2 DEF BalanceInv
  <2> QED BY <2>1, <2>2
<1>15. \A i \in Indexes : /\ pool.fractions[i] \in Nat /\ r.pool.fractions[i] \in Nat
                          /\ r.balance.fractions[i] \in Nat /\ b.fractions[i] \in Nat
  BY <1>4, <1>7, PegDataType
<1>16. Due(u)' = 0 /\ \A w \in Users : w # u => Due(w)' = Due(w)
  BY <1>2, <1>10, <1>13 DEF Due
<1>17. PoolInv'
  <2>1. \A i \in Indexes : i < Effective(peglevel') => pool'.fractions[i] = 0
    <3> TAKE i \in Indexes
    <3>1. ASSUME i < Effective(peglevel') PROVE pool.fractions[i] = 0
      BY <1>1, <1>2, <3>1 DEF PoolInv
    <3> QED BY <1>2, <1>5, <1>15, <3>1
  <2>2. ASSUME Partial(peglevel') PROVE pool'.nReserve <= SumOf([w \in Users |-> Due(w)'], Users)
    <3>0. Partial(peglevel)
      BY <1>2, <2>2
    <3>1. PICK g, h : g = [w \in Users |-> Due(w)] /\ h = [w \in Users |-> Due(w)']
      OBVIOUS
    <3>2. \A w \in Users : g[w] \in Int /\ g[w] = Due(w) /\ h[w] = Due(w)'
      BY <1>1, <3>0, <3>1, HeldLemma
    <3>3. DifferAt(g, h, u)
      BY <1>16, <3>2 DEF DifferAt
    <3>4. /\ SumOf(h, Users) = SumOf(g, Users) - g[u] + h[u]
          /\ SumOf(g, Users) \in Int /\ g[u] \in Int
      BY <3>3, SumOneUser
    <3>5. g[u] = Due(u) /\ h[u] = 0
      BY <1>16, <3>2
    <3>6. SumOf(h, Users) = SumOf(g, Users) - Due(u)
      BY <3>4, <3>5
    <3>7. r.pool.nReserve <= SumOf(g, Users) - Due(u)
      BY <1>3, <1>9, <3>0, <3>1
    <3> QED BY <1>2, <3>1, <3>6, <3>7
  <2>3. ASSUME ~Partial(peglevel') PROVE pool'.nReserve = 0
    BY <1>1, <1>2, <1>3, <1>6, <2>3 DEF PoolInv
  <2> QED BY <2>1, <2>2, <2>3 DEF PoolInv
<1>18. /\ Held(u)' = r.balance.fractions /\ Held(u) = LowPart(b.fractions, e)
       /\ \A w \in Users : w # u => Held(w)' = Held(w)
  BY <1>2, <1>3, <1>8, <1>10, <1>13 DEF Held
<1>19. ASSUME NEW i \in Indexes
       PROVE  SumOf([w \in Users |-> Held(w)'[i]], Users) + pool'.fractions[i] = exchange'[i]
  <2>1. PICK g, h : g = [w \in Users |-> Held(w)[i]] /\ h = [w \in Users |-> Held(w)'[i]]
    OBVIOUS
  <2>2. \A w \in Users : g[w] \in Int /\ g[w] = Held(w)[i] /\ h[w] = Held(w)'[i]
    BY <1>1, <2>1, HeldLemma
  <2>3. DifferAt(g, h, u)
    BY <1>15, <1>18, <2>2 DEF DifferAt
  <2>4. /\ SumOf(h, Users) = SumOf(g, Users) - g[u] + h[u]
        /\ SumOf(g, Users) \in Int /\ g[u] \in Int /\ h[u] \in Int
    BY <2>3, SumOneUser
  <2>5. h[u] + r.pool.fractions[i] = g[u] + pool.fractions[i]
    BY <1>5, <1>18, <2>2
  <2>6. SumOf(g, Users) + pool.fractions[i] = exchange[i]
    BY <1>1, <2>1 DEF BooksInv
  <2>7. PICK x \in Int, y \in Int : x = r.pool.fractions[i] /\ y = pool.fractions[i]
    BY <1>15
  <2>8. SumOf(h, Users) + x = SumOf(g, Users) + y
    BY <2>4, <2>5, <2>7
  <2> QED BY <1>2, <2>1, <2>6, <2>7, <2>8
<1>20. SumOf([w \in Users |-> Total(balance'[w].fractions)], Users) = Total(exchange')
  <2>1. [w \in Users |-> Total(balance'[w].fractions)] = [w \in Users |-> Total(balance[w].fractions)]
    BY <1>3, <1>7, <1>10
  <2> QED BY <1>1, <1>2, <2>1 DEF BooksInv
<1>21. BooksInv'
  BY <1>19, <1>20 DEF BooksInv
<1> QED BY <1>11, <1>12, <1>14, <1>17, <1>21 DEF ExchangeInv

\* A new level preserves the invariant once every user is updated.
LEMMA GetPegLevelLemma ==
  ASSUME ExchangeInv, \A u \in Users : Updated(u),
         NEW supply \in Supplies, NEW shift \in Shifts, GetPegLevel(supply, shift)
  PROVE  ExchangeInv'
<1>0. IsFiniteSet(Users)
  BY ExchangeAssumption
<1>1. TypeOK /\ LevelInv /\ (\A w \in Users : BalanceInv(w)) /\ PoolInv /\ BooksInv
  BY DEF ExchangeInv
<1>2. PICK level : /\ level = CPegLevel(peglevel.nCycle + 1, peglevel.nCycle, supply, exchange, shift)
                   /\ LevelIsValid(level)
                   /\ peglevel' = level /\ pool' = PegPool(level, exchange)
                   /\ balance' = balance /\ exchange' = exchange
  BY DEF GetPegLevel, NewLevel
<1>3. /\ supply \in Nat /\ shift \in [Indexes -> Int] /\ exchange \in Fractions /\ peglevel.nCycle \in Nat
      /\ peglevel.nCycle + 1 \in Nat
  BY <1>1, ExchangeAssumption DEF TypeOK, PegLevels
<1>4. /\ GoodLevel(level) /\ level \in PegLevels
      /\ level.nCycle = peglevel.nCycle + 1 /\ level.nCyclePrev = peglevel.nCycle
      /\ Partial(level) => level.nShiftLastTotal = exchange[Effective(level)]
  BY <1>2, <1>3, LevelLemma
<1>5. PICK e : e = Effective(level)
  OBVIOUS
<1>6. e \in Indexes /\ e \in 0..PegSize /\ level.nShiftLastPart \in Nat /\ level.nShiftLastTotal \in Nat
      /\ (Partial(level) <=> level.nShiftLastPart > 0)
  BY <1>4, <1>5, EffectiveLemma
<1>7. \A i \in Indexes : exchange[i] \in Nat
  BY <1>3 DEF Fractions
<1>8. PICK hp : hp = HighPart(exchange, e)
  OBVIOUS
<1>9. hp \in Fractions /\ hp[e] = exchange[e] /\ \A i \in Indexes : hp[i] = (IF i >= e THEN exchange[i] ELSE 0)
                                                                   /\ hp[i] \in Nat
  <2>1. \A i \in Indexes : i \in Int
    BY IndexesFinite
  <2> QED BY <1>6, <1>7, <1>8, <2>1 DEF HighPart, Fractions
<1>10. Total(hp) \in Nat /\ hp[e] <= Total(hp)
  BY <1>6, <1>9, TotalNat
<1>11. level.nShiftLastPart <= Total(hp)
  <2>1. CASE Partial(level)
    BY <1>4, <1>5, <1>6, <1>7, <1>9, <1>10, <2>1 DEF GoodLevel
  <2>2. CASE ~Partial(level)
    BY <1>6, <1>10, <2>2
  <2> QED BY <2>1, <2>2
<1>12. pool' = [fractions |-> hp, peglevel |-> level, nReserve |-> level.nShiftLastPart,
                nLiquid |-> Total(hp) - level.nShiftLastPart, nId |-> 0]
  BY <1>2, <1>5, <1>8 DEF PegPool
<1>13. pool' \in PegDatas
  <2>1. Total(hp) - level.nShiftLastPart \in Nat
    BY <1>6, <1>10, <1>11
  <2> QED BY <1>4, <1>6, <1>9, <1>12, <2>1 DEF PegDatas
<1>14. TypeOK'
  BY <1>1, <1>2, <1>4, <1>13 DEF TypeOK
<1>15. LevelInv'
  BY <1>2, <1>4, <1>12 DEF LevelInv
<1>16. \A w \in Users : ~Updated(w)' /\ balance[w].peglevel.nCycle = peglevel.nCycle
  BY <1>2, <1>3, <1>4 DEF Updated
<1>17. ASSUME NEW w \in Users PROVE BalanceInv(w)'
  BY <1>2, <1>3, <1>4, <1>16 DEF BalanceInv
<1>18. \A i \in Indexes : SumOf([w \in Users |-> balance[w].fractions[i]], Users) = exchange[i]
  BY AllUpdated DEF SumOfUsers
<1>19. \A w \in Users : balance[w].fractions \in Fractions /\ \A i \in Indexes : balance[w].fractions[i] \in Nat
  BY <1>1, PegDataType DEF TypeOK
<1>20. PoolInv'
  <2>1. \A i \in Indexes : i < e => hp[i] = 0
    <3>1. \A i \in Indexes : i \in Int
      BY IndexesFinite
    <3> QED BY <1>6, <1>9, <3>1
  <2>2. ASSUME Partial(level)
        PROVE  level.nShiftLastPart <= SumOf([w \in Users |-> LastReserve(balance[w].fractions, level)], Users)
    <3>1. PICK h : h = [w \in Users |-> balance[w].fractions]
      OBVIOUS
    <3>2. \A w \in Users : h[w] \in Fractions
      BY <1>19, <3>1
    <3>3. [w \in Users |-> h[w][e]] = [w \in Users |-> balance[w].fractions[e]]
      BY <3>1
    <3>4. SumOf([w \in Users |-> h[w][e]], Users) = level.nShiftLastTotal
      BY <1>4, <1>5, <1>6, <1>18, <2>2, <3>3
    <3>5. level.nShiftLastPart <= SumOf([w \in Users |-> LastReserve(h[w], level)], Users)
      BY <1>4, <1>5, <2>2, <3>2, <3>4, DueLemma
    <3>6. [w \in Users |-> LastReserve(h[w], level)] = [w \in Users |-> LastReserve(balance[w].fractions, level)]
      BY <3>1
    <3> QED BY <3>5, <3>6
  <2>3. \A w \in Users : Due(w)' = LastReserve(balance[w].fractions, level)
    BY <1>2, <1>16 DEF Due
  <2>4. [w \in Users |-> Due(w)'] = [w \in Users |-> LastReserve(balance[w].fractions, level)]
    BY <2>3
  <2>5. pool'.nReserve = level.nShiftLastPart /\ pool'.fractions = hp
    BY <1>12
  <2>6. ~Partial(level) => level.nShiftLastPart = 0
    BY <1>6
  <2> QED BY <1>2, <1>5, <2>1, <2>2, <2>4, <2>5, <2>6 DEF PoolInv
<1>21. \A w \in Users : Held(w)' = LowPart(balance[w].fractions, e)
  BY <1>2, <1>5, <1>16 DEF Held
<1>22. ASSUME NEW i \in Indexes
       PROVE  SumOf([w \in Users |-> Held(w)'[i]], Users) + pool'.fractions[i] = exchange'[i]
  <2>1. PICK h : h = [w \in Users |-> Held(w)'[i]]
    OBVIOUS
  <2>2. \A w \in Users : h[w] = IF i < e THEN balance[w].fractions[i] ELSE 0
    BY <1>21, <2>1 DEF LowPart
  <2>3. i \in Int /\ e \in Int /\ exchange[i] \in Nat /\ pool'.fractions[i] = hp[i]
    BY <1>6, <1>7, <1>12, IndexesFinite
  <2>4. CASE i < e
    <3>1. h = [w \in Users |-> balance[w].fractions[i]]
      BY <2>1, <2>2, <2>4
    <3>2. SumOf(h, Users) = exchange[i]
      BY <1>18, <3>1
    <3>3. hp[i] = 0
      BY <1>9, <2>3, <2>4
    <3> QED BY <1>2, <2>1, <2>3, <3>2, <3>3
  <2>5. CASE ~(i < e)
    <3>1. \A w \in Users : h[w] = 0
      BY <2>2, <2>5
    <3>2. SumOf(h, Users) = 0
      BY <1>0, <3>1, SumZero
    <3>3. hp[i] = exchange[i]
      BY <1>9, <2>3, <2>5
    <3> QED BY <1>2, <2>1, <2>3, <3>2, <3>3
  <2> QED BY <2>4, <2>5
<1>23. SumOf([w \in Users |-> Total(balance'[w].fractions)], Users) = Total(exchange')
  BY <1>1, <1>2 DEF BooksInv
<1>24. BooksInv'
  BY <1>22, <1>23 DEF BooksInv
<1> QED BY <1>14, <1>15, <1>17, <1>20, <1>24 DEF ExchangeInv

\* Every step of a careful exchange preserves the invariant.
LEMMA StepLemma ==
  ASSUME ExchangeInv, [CarefulNext]_vars PROVE ExchangeInv'
<1>1. CASE (\A u \in Users : Updated(u)) /\ \E supply \in Supplies, shift \in Shifts : GetPegLevel(supply, shift)
  BY <1>1, GetPegLevelLemma
<1>2. CASE \E u \in Users : UpdateBalance(u)
  BY <1>2, UpdateBalanceLemma
<1>3. CASE \E p \in Pairs : Updated(p[1]) /\ Updated(p[2]) /\ TradeAny(p[1], p[2])
  <2>1. PICK p \in Pairs : Updated(p[1]) /\ Updated(p[2]) /\ TradeAny(p[1], p[2])
    BY <1>3
  <2>2. p[1] \in Users /\ p[2] \in Users /\ p[1] # p[2]
    BY DEF Pairs
  <2> QED BY <2>1, <2>2, TradeAnyLemma
<1>4. CASE UNCHANGED vars
  <2>1. balance' = balance /\ pool' = pool /\ exchange' = exchange /\ peglevel' = peglevel
    BY <1>4 DEF vars
  <2> QED BY <2>1 DEF ExchangeInv, TypeOK, LevelInv, BalanceInv, PoolInv, BooksInv, Held, Due, Updated
<1> QED BY <1>1, <1>2, <1>3, <1>4 DEF CarefulNext

---------------------------------------------------------------------------
(* Theorems *)

\* The invariant holds throughout.
THEOREM ExchangeIsSound == CarefulSpec => []ExchangeInv
<1>1. Init => ExchangeInv
  BY InitLemma
<1>2. ExchangeInv /\ [CarefulNext]_vars => ExchangeInv'
  BY StepLemma
<1> QED BY <1>1, <1>2, PTL DEF CarefulSpec

\* Balances and pool stay well formed: no update or trade of pegopsp.cpp leaves
\* a negative fraction or amount.
THEOREM BalancesWellFormed == CarefulSpec => []TypeOK
<1>1. ExchangeInv => TypeOK
  BY DEF ExchangeInv
<1> QED BY <1>1, ExchangeIsSound, PTL

\* updatepegbalances succeeds for every user who is behind, in whatever order
\* users are updated and whatever the updated ones trade meanwhile.
THEOREM UpdatesSucceed == CarefulSpec => []UpdateSucceeds
<1>1. ExchangeInv => UpdateSucceeds
  BY KeepLemma DEF UpdateSucceeds
<1> QED BY <1>1, ExchangeIsSound, PTL

\* Once every user is updated the pool of getpeglevel is empty.
THEOREM PoolHandedOut == CarefulSpec => []PoolIsHandedOut
<1>1. ExchangeInv => PoolIsHandedOut
  BY AllUpdated DEF PoolIsHandedOut
<1> QED BY <1>1, ExchangeIsSound, PTL

\* Once every user is updated the users own, fraction by fraction, the books of
\* the exchange.
THEOREM BooksOwned == CarefulSpec => []UsersOwnTheBooks
<1>1. ExchangeInv => UsersOwnTheBooks
  BY AllUpdated DEF UsersOwnTheBooks
<1> QED BY <1>1, ExchangeIsSound, PTL

\* moveliquid and movereserve succeed for every amount within what the balance
\* of an updated user shows as liquid or as reserve.
THEOREM AllTradesSucceed == CarefulSpec => []TradesSucceed
<1>1. ExchangeInv => TradesSucceed
  <2> SUFFICES ASSUME ExchangeInv, NEW p \in Pairs, NEW amount \in Amounts, Updated(p[1]), Updated(p[2])
               PROVE  /\ amount <= balance[p[1]].nLiquid =>
                           MovedLiquid(balance[p[1]], balance[p[2]], amount, peglevel).ok
                      /\ amount <= balance[p[1]].nReserve =>
                           MovedReserve(balance[p[1]], balance[p[2]], amount, peglevel).ok
    BY DEF TradesSucceed
  <2>1. PICK src, dst, level : src = balance[p[1]] /\ dst = balance[p[2]] /\ level = peglevel
    OBVIOUS
  <2>2. p[1] \in Users /\ p[2] \in Users /\ amount \in Nat
    BY ExchangeAssumption DEF Pairs
  <2>3. /\ src \in PegDatas /\ dst \in PegDatas /\ GoodLevel(level)
        /\ src.peglevel = level /\ dst.peglevel = level /\ IsValid(src) /\ IsValid(dst)
    BY <2>1, <2>2 DEF ExchangeInv, TypeOK, LevelInv, BalanceInv
  <2>4. /\ amount <= src.nLiquid => MovedLiquid(src, dst, amount, level).ok
        /\ amount <= src.nReserve => MovedReserve(src, dst, amount, level).ok
    BY <2>2, <2>3, MovesSucceed
  <2> QED BY <2>1, <2>4
<1> QED BY <1>1, ExchangeIsSound, PTL
=============================================================================
