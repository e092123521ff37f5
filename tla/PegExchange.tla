---------------------------- MODULE PegExchange ----------------------------
(***************************************************************************)
(* The calls an exchange makes to keep its users' balances in step with    *)
(* the peg (src/peg/pegopsp.cpp behind src/peg/pegops.cpp).                *)
(*                                                                         *)
(* The exchange holds coins for its users in common.  When the network     *)
(* enters a new interval it asks for the new peg level: getpeglevel puts   *)
(* the liquid fractions of all users in a pool, and updatepegbalances then *)
(* hands each user, one call after another, his share of it.  In between   *)
(* and afterwards users trade with moveliquid, movereserve and movecoins.  *)
(* A call that fails returns an error and changes nothing.                 *)
(***************************************************************************)
EXTENDS PegFractions

CONSTANTS
  Users,
  Holdings,     \* the fractions a user may start with
  Supplies,     \* the supply indexes, buffer included, the network may reach
  Shifts,       \* pegshift: how the exchange's coins may differ from its books
  Amounts,      \* the amounts users trade
  MaxCycle      \* bound: intervals explored

ASSUME ExchangeAssumption ==
  /\ IsFiniteSet(Users)
  /\ Holdings \subseteq Fractions
  /\ Supplies \subseteq Nat
  /\ Amounts \subseteq Nat
  /\ MaxCycle \in Nat
  /\ \A s \in Shifts : s \in [Indexes -> Int] /\ Total(s) = 0

VARIABLES
  balance,    \* CPegData of each user
  pool,       \* CPegData of the pegpool
  exchange,   \* fractions of the exchange: what it owes to its users in all
  peglevel    \* the level of the last getpeglevel

vars == <<balance, pool, exchange, peglevel>>

---------------------------------------------------------------------------
(* Balances *)

SumOfUsers(i) == SumOf([u \in Users |-> balance[u].fractions[i]], Users)

Updated(u) == balance[u].peglevel.nCycle = peglevel.nCycle

---------------------------------------------------------------------------
(* getpeglevel *)

\* The pool has the liquid fractions, and all of the last, partial one.
PegPool(level, f) ==
  LET fractions == HighPart(f, Effective(level))
  IN  [fractions |-> fractions, peglevel |-> level, nReserve |-> level.nShiftLastPart,
       nLiquid |-> Total(fractions) - level.nShiftLastPart, nId |-> 0]

---------------------------------------------------------------------------
(* updatepegbalances *)

\* The last fraction when the level takes it in part: the reserve a user takes
\* of it, as far as the pool has some, and his share of its liquid rest.
TakePartial(f, p, level) ==
  LET e == Effective(level)
      nTakeReserve == Least(LastReserve(f, level), Least(p.fractions[e], p.nReserve))
      last == p.fractions[e] - nTakeReserve
      nPoolReserve == Least(p.nReserve - nTakeReserve, last)
      nLiquid == Total(f) - Low(f, e) - nTakeReserve
      nLiquidPool == Total(p.fractions) - nTakeReserve - nPoolReserve
      nTakeLiquid == Least(RatioOf(last - nPoolReserve, nLiquid, nLiquidPool), last)
  IN  [reserve |-> nTakeReserve, liquid |-> nTakeLiquid,
       poolReserve |-> nPoolReserve, poolLast |-> last - nTakeLiquid]

NothingPartial(p, level) ==
  [reserve |-> 0, liquid |-> 0, poolReserve |-> p.nReserve,
   poolLast |-> p.fractions[Effective(level)]]

\* Mutant: what a user gets stays in the pool.
CopyingFromPool(free, moved, hold, left, e) ==
  LET fromHold == IF left <= hold THEN left ELSE 0
  IN  [taken |-> [moved EXCEPT ![e] = @ + fromHold],
       rest |-> [free EXCEPT ![e] = IF hold > fromHold THEN hold - fromHold ELSE @],
       left |-> left - fromHold]

\* The rest of the liquid comes from the pool in proportion, of the last fraction
\* (hold) only what nothing else in the pool can make up for.
FromPool(free, moved, hold, left, e) ==
  LET fromHold == IF left <= hold THEN left ELSE 0
  IN  [taken |-> [moved EXCEPT ![e] = @ + fromHold],
       rest |-> [Minus(free, moved) EXCEPT ![e] = IF hold > fromHold THEN hold - fromHold ELSE @],
       left |-> left - fromHold]

\* The last fraction is held back while it has reserve for other users.
TakeLiquid(pooled, poolReserve, todo, e) ==
  LET hold == IF poolReserve > 0 THEN pooled[e] ELSE 0
      free == IF poolReserve > 0 THEN [pooled EXCEPT ![e] = 0] ELSE pooled
      moved == MovedPart(free, todo)
  IN  FromPool(free, moved, hold, todo - Total(moved), e)

\* The new balance and pool, and whether all checks on them pass
Settled(b, p, level, frReserve, frLiquid, rest, poolReserve) ==
  LET newBalance == [fractions |-> Plus(frReserve, frLiquid), peglevel |-> level,
                     nReserve |-> Total(frReserve),
                     nLiquid |-> Total(b.fractions) - Total(frReserve), nId |-> p.nId + 1]
      newPool == [fractions |-> rest, peglevel |-> p.peglevel, nReserve |-> poolReserve,
                  nLiquid |-> Total(rest) - poolReserve, nId |-> p.nId + 1]
  IN  [ok |-> /\ Total(b.fractions) = Total(newBalance.fractions)
              /\ IsValid(newBalance)
              /\ IsValid(newPool),
       balance |-> newBalance, pool |-> newPool]

\* What stays in reserve is the user's own, his liquid is made up from the pool.
Exchanged(b, p, level, part) ==
  LET e == Effective(level)
      frReserve == [LowPart(b.fractions, e) EXCEPT ![e] = part.reserve]
      todo == Total(b.fractions) - Total(frReserve) - part.liquid
      pooled == [p.fractions EXCEPT ![e] = part.poolLast]
      got == TakeLiquid(pooled, part.poolReserve, todo, e)
      settled == Settled(b, p, level, frReserve, [got.taken EXCEPT ![e] = @ + part.liquid],
                         got.rest, part.poolReserve)
  IN  [settled EXCEPT !.ok = @ /\ todo <= Total(pooled) - part.poolReserve /\ got.left = 0]

\* The balance follows the cycle before this one; an empty one may be older.
CanUpdate(b, p, level) ==
  /\ p.peglevel.nCycle = level.nCycle
  /\ b.peglevel.nCycle < level.nCycle
  /\ Total(b.fractions) # 0 /\ b.peglevel.nCycle # 0 => b.peglevel.nCycle = level.nCyclePrev

UpdatePegBalances(b, p, level) ==
  LET part == IF Partial(level) THEN TakePartial(b.fractions, p, level) ELSE NothingPartial(p, level)
      r == Exchanged(b, p, level, part)
  IN  [r EXCEPT !.ok = @ /\ CanUpdate(b, p, level)]

---------------------------------------------------------------------------
(* Trades *)

\* A move of frMove, with the split of it and its part of either kind
Moved(src, dst, frMove, liquid, reserve) ==
  [src |-> [src EXCEPT !.fractions = Minus(@, frMove), !.nLiquid = @ - liquid, !.nReserve = @ - reserve],
   dst |-> [dst EXCEPT !.fractions = Plus(@, frMove), !.nLiquid = @ + liquid, !.nReserve = @ + reserve]]

MoveIsValid(m) == IsValid(m.src) /\ IsValid(m.dst)

\* Neither side is outdated, and they are not the same user.
CanTrade(src, dst, level) ==
  /\ SameLevel(level, src.peglevel)
  /\ SameLevel(level, dst.peglevel)
  /\ ~(src.nId # 0 /\ src.nId = dst.nId)

\* moveliquid and movereserve move of one part only; they also refuse a part
\* with a negative fraction and a source that would be left with one.
MovePart(src, dst, frPart, frMove, liquid, reserve) ==
  LET m == Moved(src, dst, frMove, liquid, reserve)
  IN  [ok |-> IsPositive(frPart) /\ IsPositive(m.src.fractions) /\ MoveIsValid(m), move |-> m]

MovedLiquid(src, dst, amount, level) ==
  LET frLiquid == LiquidPart(src, level)
  IN  MovePart(src, dst, frLiquid, RatioPart(frLiquid, amount), amount, 0)
MovedReserve(src, dst, amount, level) ==
  LET frReserve == ReservePart(src, level)
  IN  MovePart(src, dst, frReserve, RatioPart(frReserve, amount), 0, amount)

\* movecoins moves of all fractions alike and splits both balances anew.
MovedCoins(src, dst, amount, level) ==
  LET frMove == RatioPart(src.fractions, amount)
      resplit(pd, f) == [Split(f, level, pd.nId) EXCEPT
                           !.peglevel = IF SameLevel(pd.peglevel, level) THEN pd.peglevel ELSE level]
  IN  [src |-> resplit(src, Minus(src.fractions, frMove)),
       dst |-> resplit(dst, Plus(dst.fractions, frMove))]

---------------------------------------------------------------------------
(* Actions *)

\* Every user is up to date with the first level, and the books are his and
\* the others' holdings.
Init ==
  /\ \E holding \in [Users -> Holdings], supply \in Supplies :
       /\ exchange = [i \in Indexes |-> SumOf([u \in Users |-> holding[u][i]], Users)]
       /\ peglevel = CPegLevel(1, 0, supply, exchange, Zero)
       /\ balance = [u \in Users |-> Split(holding[u], peglevel, 0)]
  /\ pool = [fractions |-> Zero, peglevel |-> peglevel, nReserve |-> 0, nLiquid |-> 0, nId |-> 0]

\* getpeglevel for the next cycle: the coins behind the books are not negative.
NewLevel(level, newPool) ==
  /\ LevelIsValid(level)
  /\ IsValid(newPool)
  /\ peglevel' = level
  /\ pool' = newPool
  /\ UNCHANGED <<balance, exchange>>

GetPegLevel(supply, shift) ==
  /\ peglevel.nCycle < MaxCycle
  /\ IsPositive(Plus(exchange, shift))
  /\ \E level \in {CPegLevel(peglevel.nCycle + 1, peglevel.nCycle, supply, exchange, shift)} :
       NewLevel(level, PegPool(level, exchange))

UpdateBalance(u) ==
  \E r \in {UpdatePegBalances(balance[u], pool, peglevel)} :
    /\ r.ok
    /\ balance' = [balance EXCEPT ![u] = r.balance]
    /\ pool' = r.pool
    /\ UNCHANGED <<exchange, peglevel>>

Trade(u, v, m) ==
  /\ balance' = [balance EXCEPT ![u] = m.src, ![v] = m.dst]
  /\ UNCHANGED <<pool, exchange, peglevel>>

MoveLiquid(u, v, amount) ==
  /\ CanTrade(balance[u], balance[v], peglevel)
  /\ amount <= balance[u].nLiquid
  /\ \E r \in {MovedLiquid(balance[u], balance[v], amount, peglevel)} :
       r.ok /\ Trade(u, v, r.move)

MoveReserve(u, v, amount) ==
  /\ CanTrade(balance[u], balance[v], peglevel)
  /\ amount <= balance[u].nReserve
  /\ \E r \in {MovedReserve(balance[u], balance[v], amount, peglevel)} :
       r.ok /\ Trade(u, v, r.move)

\* With fCrossCycles movecoins takes outdated balances too; the RPC call sets it.
MoveCoins(u, v, amount, fCrossCycles) ==
  /\ \/ fCrossCycles
     \/ SameLevel(peglevel, balance[u].peglevel) /\ SameLevel(peglevel, balance[v].peglevel)
  /\ amount <= Total(balance[u].fractions)
  /\ \E m \in {MovedCoins(balance[u], balance[v], amount, peglevel)} :
       MoveIsValid(m) /\ Trade(u, v, m)

TradeAny(u, v) ==
  \E amount \in Amounts :
    \/ MoveLiquid(u, v, amount)
    \/ MoveReserve(u, v, amount)
    \/ MoveCoins(u, v, amount, FALSE)

Pairs == {p \in Users \X Users : p[1] # p[2]}

\* An exchange that brings every user up to date before the next cycle and lets
\* nobody trade before that
CarefulNext ==
  \/ /\ \A u \in Users : Updated(u)
     /\ \E supply \in Supplies, shift \in Shifts : GetPegLevel(supply, shift)
  \/ \E u \in Users : UpdateBalance(u)
  \/ \E p \in Pairs : Updated(p[1]) /\ Updated(p[2]) /\ TradeAny(p[1], p[2])

CarefulSpec == Init /\ [][CarefulNext]_vars

---------------------------------------------------------------------------
(* Properties *)

\* Balances and the pool are well formed; no fraction is ever negative, which
\* the calls ask of the source of a trade only.
TypeOK ==
  /\ balance \in [Users -> PegDatas]
  /\ pool \in PegDatas
  /\ exchange \in Fractions
  /\ peglevel \in PegLevels

\* A user who has not been updated yet can be, whoever was before him and
\* whatever was traded: the pool never runs out of liquid and every check of
\* updatepegbalances passes.
UpdateSucceeds ==
  \A u \in Users : ~Updated(u) => UpdatePegBalances(balance[u], pool, peglevel).ok

\* Once every user is updated nothing is left in the pool (the test test1k asks
\* it of a thousand users).
PoolIsHandedOut ==
  (\A u \in Users : Updated(u)) => Total(pool.fractions) = 0

\* Once every user is updated the users own, fraction by fraction, what the
\* exchange has in its books, through all updates and trades.
UsersOwnTheBooks ==
  (\A u \in Users : Updated(u)) => \A i \in Indexes : SumOfUsers(i) = exchange[i]

\* A user can trade all that his balance shows as liquid or as reserve: no
\* check of moveliquid or movereserve fails for an amount within it.
TradesSucceed ==
  \A p \in Pairs, amount \in Amounts :
    LET src == balance[p[1]]
        dst == balance[p[2]]
    IN  Updated(p[1]) /\ Updated(p[2]) =>
          /\ amount <= src.nLiquid => MovedLiquid(src, dst, amount, peglevel).ok
          /\ amount <= src.nReserve => MovedReserve(src, dst, amount, peglevel).ok
=============================================================================
