---------------------------- MODULE PegWithdraw ----------------------------
(***************************************************************************)
(* The withdrawals an exchange prepares: prepareliquidwithdraw and         *)
(* preparereservewithdraw (src/peg/pegopsp.cpp, src/peg/pegops.cpp).       *)
(*                                                                         *)
(* A call builds the transaction that pays the user out of coins of the    *)
(* exchange, with the whole fee; has its fractions calculated as the       *)
(* network will in the next interval; gives what is left of the fee back   *)
(* to the exchange as change and has them calculated again.  Then it takes *)
(* the amount off the user's balance and the exchange's books, notes in    *)
(* pegshift by how much the fractions paid differ from those booked, and   *)
(* hands the change to the exchange.  An error changes nothing.            *)
(*                                                                         *)
(* TxFractions is the calculation.  A behaviour of this module is either   *)
(* a session of the exchange or one transaction of somebody's wallet.      *)
(***************************************************************************)
EXTENDS TxFractions

CONSTANTS
  CoinSets,         \* the coins an exchange may start with: sequences of [address, fractions]
  Books,            \* what it owes its users in all, of which
  Balances,         \* one user has these
  Levels,           \* [nSupply, nSupplyNext, nBuffer], buffer included
  Amounts,          \* amounts with fee
  Payee,            \* the user's address
  FeeRet, FeeBase, FeePerCoin,    \* 1000000, 200000 and 10000
  FreezeValue,      \* PEG_MAKETX_FREEZE_VALUE
  MaxInputs,        \* coins a withdrawal may use: 30 for liquid, 20 for reserve
  MaxWithdrawals    \* bound: withdrawals prepared

\* The exchange has coins at addresses of its own, and the user is none of them
ASSUME CoinsAssumption ==
  /\ Payee \in Nat \ {Burn}
  /\ \A cs \in CoinSets : cs \in Seq([address : Nat \ {0, Payee}, fractions : Fractions])

ASSUME BooksAssumption ==
  /\ Books \subseteq Fractions /\ Balances \subseteq Fractions /\ Amounts \subseteq Nat
  /\ \A l \in Levels : l.nSupply \in Nat /\ l.nSupplyNext \in Indexes /\ l.nBuffer \in 0..l.nSupplyNext

\* The fee is enough for a transaction of as many inputs and outputs as there may be
ASSUME FeeAssumption ==
  /\ FeeRet \in Nat /\ FeeBase \in Nat /\ FeePerCoin \in Nat /\ FreezeValue \in Nat
  /\ MaxInputs \in [{"L", "R"} -> Nat]
  /\ FeeBase + FeePerCoin * (2 * MaxInputs["L"] + 2) <= FeeRet
  /\ FeeBase + FeePerCoin * (3 * MaxInputs["R"] + 2) <= FeeRet

VARIABLES
  step,           \* "wallet", "idle", "common" or "net": which calculation is running
  peglevel,
  coins,          \* the exchange's coins, by number
  known,          \* the coins the exchange was told of
  balance, exchange, pegshift, maintenance,
  call,           \* the call that is running: kind, amount, coins used, ...
  notaries,       \* history: fractions spent on notary outputs
  count

books == <<peglevel, coins, known, balance, exchange, pegshift, maintenance, notaries, count>>
wvars == <<vars, step, books, call>>

NoTx == [vin |-> <<>>, vout |-> <<>>, reward |-> Null]

-----------------------------------------------------------------------------
(* The transaction *)

\* What of a coin counts: its liquid on the network, or its reserve by the
\* level of the exchange
Available(kind, f) ==
  IF kind = "L" THEN High(f, peglevel.nSupplyNext - peglevel.nBuffer) ELSE Low(f, peglevel.nSupplyNext)

\* The coins used, sorted by address
Sorted(used) ==
  LET before(x, y) == coins[x].address < coins[y].address \/ (coins[x].address = coins[y].address /\ x < y)
  IN  CHOOSE s \in [1..Cardinality(used) -> used] : \A i, j \in DOMAIN s : i < j => before(s[i], s[j])

AddressesOf(used) == {coins[c].address : c \in used}

\* By address: what of its coins counts, and their value
AvailableAt(kind, used) ==
  [a \in AddressesOf(used) |-> SumOf([c \in used |-> Available(kind, coins[c].fractions)], {c \in used : coins[c].address = a})]
InputAt(used) ==
  [a \in AddressesOf(used) |-> SumOf([c \in used |-> Total(coins[c].fractions)], {c \in used : coins[c].address = a})]

\* What each address gives of an amount, one after the other in this order
GivenBy(order, stores, amount) ==
  LET given == Greedy([i \in DOMAIN order |-> stores[order[i]]], amount)
  IN  [a \in DOMAIN stores |-> SumOf(given, {i \in DOMAIN order : order[i] = a})]

LeftOf(stores, given) == [a \in DOMAIN stores |-> stores[a] - given[a]]

\* What the plan takes from each address for the user: liquid coin by coin
TakenLiquid(used, amount) ==
  LET vCoins == Sorted(used)
      taken == Greedy([i \in DOMAIN vCoins |-> Available("L", coins[vCoins[i]].fractions)], amount)
  IN  [at |-> [a \in AddressesOf(used) |-> SumOf(taken, {i \in DOMAIN vCoins : coins[vCoins[i]].address = a})],
       left |-> 0]

\* Reserve address by address, for the notaries first and then for the user,
\* of the last address first; what is missing is left to the change
TakenReserve(used, amount) ==
  LET all == AddressesOf(used)
      stores == AvailableAt("R", used)
      last == Sorted(used)[Cardinality(used)]
      frozen == Ascending({coins[last].address}) \o Ascending(all \ {coins[last].address})
      dust == FreezeValue * Cardinality(used)
      forNotaries == GivenBy(Ascending(all), stores, dust)
      forUser == GivenBy(frozen, LeftOf(stores, forNotaries), amount)
  IN  [at |-> [a \in all |-> forNotaries[a] + forUser[a]],
       left |-> dust + amount - SumOf(forNotaries, all) - SumOf(forUser, all)]

Taken(kind, used, amount) == IF kind = "L" THEN TakenLiquid(used, amount) ELSE TakenReserve(used, amount)

\* What that leaves at each address
Untaken(kind, used, amount) == LeftOf(InputAt(used), Taken(kind, used, amount).at)

\* Mutant: the unit of the exchange's notary is forgotten.
UnnotedPlannedChange(kind, used, amount) ==
  LET before == Untaken(kind, used, amount)
      reduced == GivenBy(Ascending(AddressesOf(used)), before, Taken(kind, used, amount).left + FeeRet)
  IN  [change |-> LeftOf(before, reduced), reduced |-> reduced]

\* Per address: the change, and what the fee, the notary of the exchange and
\* the part not covered above take from it
PlannedChange(kind, used, amount) ==
  LET before == Untaken(kind, used, amount)
      reduced == GivenBy(Ascending(AddressesOf(used)), before, Taken(kind, used, amount).left + FeeRet + 1)
  IN  [change |-> LeftOf(before, reduced), reduced |-> reduced]

Pay(a, v) == [address |-> a, value |-> v, notary |-> "", refs |-> <<>>]
Notary(kind, v, refs) == [address |-> 0, value |-> v, notary |-> kind, refs |-> refs]

\* An output to each address that gets something, in their order
PayEach(values) ==
  LET some == Ascending({a \in DOMAIN values : values[a] > 0})
  IN  [j \in DOMAIN some |-> Pay(some[j], values[some[j]])]

\* The place of the user's output; the reserve's comes after the notaries
PayoutAt(kind, used) == IF kind = "L" THEN 1 ELSE Cardinality(used) + 1

RawTx(kind, used, amount) ==
  LET at == PayoutAt(kind, used)
      vCoins == Sorted(used)
  IN  [vin |-> [i \in DOMAIN vCoins |->
                  [address |-> coins[vCoins[i]].address, fractions |-> coins[vCoins[i]].fractions,
                   mark |-> "", locked |-> FALSE, pass |-> FALSE, home |-> 0]],
       vout |-> [i \in 1..(at - 1) |-> Notary("F", FreezeValue, <<at, at, at>>)]
                  \o <<Pay(Payee, amount)>> \o PayEach(PlannedChange(kind, used, amount).change)
                  \o <<Notary("XCH", 1, <<>>)>>,
       reward |-> Null]

\* The change outputs, those after the user's, with more put onto them
PutOnto(vout, at, onto) ==
  [o \in DOMAIN vout |-> IF o > at /\ vout[o].notary = ""
                         THEN [vout[o] EXCEPT !.value = @ + onto[vout[o].address]] ELSE vout[o]]

\* What the network does not need of the fee goes back: first onto the change
\* outputs there are, then as outputs of its own
WithMaintenance(rawTx) ==
  LET order == Ascending(AddressesOf(call.used))
      plan == call.plan
      nFeeMaintenance == FeeRet - (FeeBase + FeePerCoin * (Len(rawTx.vin) + Len(rawTx.vout)))
      onto == GivenBy(order, [a \in DOMAIN plan.change |-> IF plan.change[a] > 0 THEN plan.reduced[a] ELSE 0],
                      nFeeMaintenance)
      own == GivenBy(order, [a \in DOMAIN plan.change |-> IF plan.change[a] > 0 THEN 0 ELSE plan.reduced[a]],
                     nFeeMaintenance - SumOf(onto, DOMAIN onto))
  IN  [rawTx EXCEPT !.vout = PutOnto(@, call.at, onto) \o PayEach(own)]

-----------------------------------------------------------------------------
(* The steps of a call *)

\* computeTxPegForNextCycle: the calculation starts on a transaction
Calculate(rawTx) ==
  /\ tx' = rawTx
  /\ supply' = peglevel.nSupplyNext - peglevel.nBuffer
  /\ phase' = "inputs" /\ n' = 1
  /\ poolReserves' = <<>> /\ poolLiquidity' = <<>>
  /\ frCommonLiquidity' = Zero /\ nLiquidity' = 0
  /\ poolFrozen' = <<>> /\ frColdFees' = Zero /\ fFreezeAll' = FALSE
  /\ outs' = <<>>

\* The call is over
Return ==
  /\ step' = "idle" /\ call' = Null
  /\ tx' = NoTx /\ supply' = 0 /\ phase' = "idle" /\ n' = 1
  /\ poolReserves' = <<>> /\ poolLiquidity' = <<>>
  /\ frCommonLiquidity' = Zero /\ nLiquidity' = 0
  /\ poolFrozen' = <<>> /\ frColdFees' = Zero /\ fFreezeAll' = FALSE
  /\ outs' = <<>>

BalancePart(kind) == IF kind = "L" THEN LiquidPart(balance, peglevel) ELSE ReservePart(balance, peglevel)
BalanceAmount(kind) == IF kind = "L" THEN balance.nLiquid ELSE balance.nReserve

\* Reserve may be paid with liquid coins too
InputsAmount(kind, used) ==
  SumOf([c \in used |-> IF kind = "L" THEN Available("L", coins[c].fractions) ELSE Total(coins[c].fractions)], used)

PrepareWithdraw(kind, used, nAmountWithFee) ==
  /\ step = "idle"
  /\ count < MaxWithdrawals
  /\ used # {} /\ Cardinality(used) <= MaxInputs[kind]
  /\ nAmountWithFee >= FeeRet + 2
  /\ nAmountWithFee <= BalanceAmount(kind)
  /\ nAmountWithFee <= Total(BalancePart(kind))
  /\ nAmountWithFee <= InputsAmount(kind, used)
  /\ step' = "common"
  /\ LET nAmount == nAmountWithFee - FeeRet
     IN  /\ call' = [kind |-> kind, used |-> used, amount |-> nAmountWithFee, at |-> PayoutAt(kind, used),
                     requested |-> RatioPart(BalancePart(kind), nAmountWithFee),
                     plan |-> PlannedChange(kind, used, nAmount), fees |-> Zero]
         /\ Calculate(RawTx(kind, used, nAmount))
  /\ UNCHANGED books

AddMaintenance ==
  /\ step = "common" /\ phase = "done"
  /\ step' = "net"
  /\ call' = [call EXCEPT !.fees = txFeeFractions]
  /\ Calculate(WithMaintenance(tx))
  /\ UNCHANGED books

\* The user's output and the fee as first calculated
Processed == Plus(outs[call.at].fractions, call.fees)

IsNotary(o) == tx.vout[o].notary # ""

\* Mutant: the fee of the second calculation is noted.
NetShift == Minus(call.requested, Plus(outs[call.at].fractions, txFeeFractions))

NewShift == Minus(call.requested, Processed)

NewBalance ==
  [balance EXCEPT !.fractions = Minus(@, call.requested),
                  !.nLiquid = @ - (IF call.kind = "L" THEN call.amount ELSE 0),
                  !.nReserve = @ - (IF call.kind = "R" THEN call.amount ELSE 0)]

\* The last checks of the call, and that of pegops.cpp on the balance it returns
AccountsMatch ==
  /\ Total(call.requested) = call.amount
  /\ Total(Processed) = call.amount
  /\ IsValid(NewBalance)

\* The outputs after the user's up to the last but one are handed to the exchange
HandedBack == {o \in (call.at + 1)..(Len(tx.vout) - 1) : ~ IsNotary(o)}

Account ==
  /\ step = "net" /\ phase = "done"
  /\ AccountsMatch
  /\ LET change == {o \in DOMAIN tx.vout : o # call.at /\ ~ IsNotary(o)}
         number(o) == Max(DOMAIN coins) + o
     IN  /\ coins' = [c \in (DOMAIN coins \ call.used) \union {number(o) : o \in change} |->
                        IF c \in DOMAIN coins THEN coins[c]
                        ELSE [address |-> tx.vout[c - number(0)].address, fractions |-> outs[c - number(0)].fractions]]
         /\ known' = (known \ call.used) \union {number(o) : o \in HandedBack}
  /\ balance' = NewBalance
  /\ exchange' = Minus(exchange, call.requested)
  /\ pegshift' = Plus(pegshift, NewShift)
  /\ maintenance' = Plus(maintenance, Minus(call.fees, txFeeFractions))
  /\ notaries' = Plus(notaries, SumOver(FractionsOf(outs), {o \in DOMAIN tx.vout : IsNotary(o)}))
  /\ count' = count + 1
  /\ Return
  /\ UNCHANGED peglevel

Fail ==
  /\ step \in {"common", "net"}
  /\ phase = "failed" \/ (step = "net" /\ phase = "done" /\ ~ AccountsMatch)
  /\ Return
  /\ UNCHANGED books

-----------------------------------------------------------------------------
\* A session starts with a level that fits the books and the coins, and coins
\* of the same total as the books
SessionInit ==
  /\ step = "idle"
  /\ \E cs \in CoinSets, e \in Books, b \in Balances, l \in Levels :
       /\ coins = cs /\ known = DOMAIN cs
       /\ exchange = e
       /\ pegshift = Minus(SumAll(FractionsOf(cs)), e)
       /\ Total(pegshift) = 0
       /\ \A i \in Indexes : b[i] <= e[i]
       /\ \E level \in {CPegLevel(1, 0, l.nSupply, e, pegshift)} :
            /\ LevelIsValid(level)
            /\ peglevel = [f \in DOMAIN level \union {"nSupplyNext", "nBuffer"} |->
                             IF f \in DOMAIN level THEN level[f] ELSE l[f]]
       /\ balance = Split(b, peglevel, 0)
  /\ tx = NoTx /\ supply = 0 /\ phase = "idle" /\ n = 1
  /\ poolReserves = <<>> /\ poolLiquidity = <<>>
  /\ frCommonLiquidity = Zero /\ nLiquidity = 0
  /\ poolFrozen = <<>> /\ frColdFees = Zero /\ fFreezeAll = FALSE
  /\ outs = <<>>

WalletInit ==
  /\ Init
  /\ step = "wallet"
  /\ peglevel = Null /\ coins = <<>> /\ known = {}
  /\ balance = Null /\ exchange = Zero /\ pegshift = Zero

WithdrawInit ==
  /\ SessionInit \/ WalletInit
  /\ maintenance = Zero /\ notaries = Zero /\ count = 0 /\ call = Null

WithdrawNext ==
  \/ Next /\ UNCHANGED <<step, books, call>>
  \/ \E kind \in {"L", "R"}, used \in SUBSET known, amount \in Amounts : PrepareWithdraw(kind, used, amount)
  \/ AddMaintenance
  \/ Account
  \/ Fail

WithdrawSpec == WithdrawInit /\ [][WithdrawNext]_wvars

-----------------------------------------------------------------------------
(* Properties *)

\* Through any withdrawals the coins of the exchange are, fraction by fraction,
\* what its books say: the users' coins, the shift and the part of the fees it
\* kept, less what the notary outputs cost.  The user's fractions stay within
\* the exchange's, none of them negative.
BooksMatchCoins ==
  step = "idle" =>
    /\ Plus(SumAll(FractionsOf(coins)), notaries)
         = Plus(Plus(exchange, pegshift), maintenance)
    /\ \A i \in Indexes : balance.fractions[i] \in 0..exchange[i]

\* A withdrawal that passes the checks on balance and inputs is refused later
\* only if its inputs can not pay for the notaries besides, or if an output
\* behind the exchange's notary misses the one unit which that notary took from
\* the reserve of its address: else the plan made per address agrees with the
\* calculation of the network.
WithdrawalsSucceed ==
  step \in {"common", "net"} /\ (phase = "failed" \/ (step = "net" /\ phase = "done" /\ ~ AccountsMatch)) =>
    \/ ValueIn < call.amount + 1 + FreezeValue * (call.at - 1)
    \/ /\ step = "net" /\ phase = "failed" /\ n <= Len(tx.vout)
       /\ \E x \in (call.at + 1)..(n - 1) : IsNotary(x)
       /\ Output.value = Total(At(poolReserves, Output.address, Zero)) + nLiquidity + 1

\* A liquid withdrawal is paid in fractions that are liquid in the next interval;
\* one of reserve is frozen and has liquid fractions only if the change is left
\* without reserve.
PaidAsAsked ==
  step = "net" /\ phase = "done" =>
    LET change == {o \in DOMAIN outs : o # call.at /\ ~ IsNotary(o)}
        paid == outs[call.at]
    IN  IF call.kind = "L" THEN Low(paid.fractions, supply) = 0
        ELSE /\ paid.mark = "F"
             /\ \/ High(paid.fractions, supply) = 0
                \/ \A o \in change : Low(outs[o].fractions, supply) = 0

\* All change of a withdrawal is handed to the exchange: the code skips the
\* withdrawal and the last output, which it takes for the notary's.
ChangeIsKnown == step = "idle" => known = DOMAIN coins
=============================================================================
