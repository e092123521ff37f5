----------------------------- MODULE TxFractions -----------------------------
(***************************************************************************)
(* How the fractions of a transaction's inputs are handed to its outputs   *)
(* and to the fee: CalculateStandardFractions (src/peg/pegstd.cpp) input   *)
(* by input, then output by output, and CalculateStakingFractions_v2       *)
(* (src/peg/peg.cpp) for a coinstake.                                      *)
(*                                                                         *)
(* The part of an input below the peg supply index is reserve: it stays    *)
(* with the input's address.  The rest is liquid and goes anywhere.  An    *)
(* output that is a notary "**F**1:2" and stands at the place of an input  *)
(* freezes outputs 1 and 2; F freezes reserve, V and L liquid, C keeps     *)
(* coins "cold", to go back to where they came from.                       *)
(*                                                                         *)
(* Addresses are numbers, in the order of the maps keyed by them.  A lock  *)
(* time is reduced to whether it is over at the time of the block.         *)
(***************************************************************************)
EXTENDS PegFractions, Sequences

CONSTANTS
  Transactions,   \* sets of [vin, vout, reward]; reward is Null unless it is a coinstake
  Null,
  Supplies,       \* peg supply indexes
  Burn            \* sBurnAddress

\* Notaries, by what they ask for: "" stands for none and XCH for any other
Marks == {"", "F", "V", "L", "C", "Z", "XCH"}

TxIns == [address : Nat, fractions : Fractions, mark : Marks, locked : BOOLEAN, pass : BOOLEAN, home : Nat]
TxOuts == [address : Nat, value : Nat, notary : Marks, refs : Seq(Nat)]

ASSUME TransactionsAssumption ==
  \A family \in Transactions : \A t \in family :
    /\ t.vin \in Seq(TxIns) /\ t.vout \in Seq(TxOuts)
    /\ t.reward # Null => t.vin # <<>> /\ t.reward \in Fractions

ASSUME SuppliesAssumption == Supplies \subseteq Indexes

VARIABLES
  tx, supply,
  phase,            \* "inputs", "outputs", "done" or "failed"
  n,                \* the input or output that comes next
  poolReserves,     \* by address of the inputs
  poolLiquidity,    \* by address, until the outputs share it
  frCommonLiquidity, nLiquidity,    \* the fractions and the amount it is taken for
  poolFrozen,       \* by output: what the notaries set aside
  frColdFees,
  fFreezeAll,
  outs              \* fractions and mark of the outputs made so far

pools == <<poolReserves, poolLiquidity, frCommonLiquidity, nLiquidity>>
vars == <<tx, supply, phase, n, pools, poolFrozen, frColdFees, fFreezeAll, outs>>

Freezes == {"F", "V", "L", "C"}
Unfrozen == [nValue |-> 0, sAddress |-> 0, mark |-> "", fractions |-> Zero,
             fIsColdOutput |-> FALSE, fair |-> <<>>]

-----------------------------------------------------------------------------
(* Helpers *)

FractionsOf(map) == [x \in DOMAIN map |-> map[x].fractions]

\* The sum of the fractions g[x] for the x of S
SumOver(g, S) == [i \in Indexes |-> SumOf([x \in S |-> g[x][i]], S)]
SumAll(g) == SumOver(g, DOMAIN g)

At(map, key, default) == IF key \in DOMAIN map THEN map[key] ELSE default
Put(map, key, value) == [k \in DOMAIN map \union {key} |-> IF k = key THEN value ELSE map[k]]
PutPlus(map, key, f) == Put(map, key, Plus(At(map, key, Zero), f))

InputAddresses == {tx.vin[i].address : i \in DOMAIN tx.vin}

-----------------------------------------------------------------------------
(* Inputs *)

Input == tx.vin[n]
HasPlace == n <= Len(tx.vout)
Place == tx.vout[n]
IsCold == HasPlace /\ Input.mark = "C"
IsFreezing == HasPlace /\ Place.notary \in Freezes
Named == {Place.refs[i] : i \in DOMAIN Place.refs}

\* The pools with the input's two parts added
ReserveWithInput == PutPlus(poolReserves, Input.address, LowPart(Input.fractions, supply))
LiquidityWithInput == PutPlus(poolLiquidity, Input.address, HighPart(Input.fractions, supply))

\* The frozen input may not be spent yet (P-I-4, P-I-5)
IsLocked == /\ Input.locked
            /\ Input.mark = "V" \/ (Input.mark = "F" /\ ~ Input.pass)

\* Mutant: a notary may name the output of a cold input.
ColdBlindBadNotary ==
  \/ IsCold /\ Place.notary # ""
  \/ /\ IsFreezing
     /\ \/ Place.refs = <<>> \/ (Place.notary = "C" /\ Len(Place.refs) # 1)
        \/ n \in Named \/ ~ Named \subseteq DOMAIN tx.vout
        \/ \E o \in Named : At(poolFrozen, o, Unfrozen).mark \notin {"", Place.notary}

\* Notaries that name no output, their own place, a cold output or an output
\* with another mark (P-I-N-1 to P-I-N-6)
BadNotary ==
  \/ IsCold /\ Place.notary # ""
  \/ /\ IsFreezing
     /\ \/ Place.refs = <<>> \/ (Place.notary = "C" /\ Len(Place.refs) # 1)
        \/ n \in Named \/ ~ Named \subseteq DOMAIN tx.vout
        \/ \E o \in Named : At(poolFrozen, o, Unfrozen).fIsColdOutput
        \/ \E o \in Named : At(poolFrozen, o, Unfrozen).mark \notin {"", Place.notary}

\* The only output named can not be filled from this input (P-I-N-7, 8, 12)
ShortNotary ==
  /\ IsFreezing /\ Len(Place.refs) = 1
  /\ LET o == Place.refs[1]
         value == tx.vout[o].value
     IN  \/ Place.notary = "L" /\ High(Input.fractions, supply) < value
         \/ Place.notary = "C" /\ Total(Input.fractions) < value
         \/ Place.notary = "C" /\ Total(At(poolFrozen, o, Unfrozen).fractions) # 0

\* A cold input whose place holds coins already (P-I-C-1)
ColdTaken ==
  LET f == At(poolFrozen, n, Unfrozen)
  IN  IsCold /\ (f.nValue > 0 \/ Total(f.fractions) # 0)

\* A cold input that leaves home over a place another notary marked (P-I-C-2)
ColdCrossed == IsCold /\ Place.address # Input.home /\ At(poolFrozen, n, Unfrozen).mark \notin {"", "F"}

\* Several outputs share the freeze, or this input alone can not fill the one
SharedFreeze ==
  \/ Len(Place.refs) > 1
  \/ Place.notary = "F" /\ Low(Input.fractions, supply) < tx.vout[Place.refs[1]].value
  \/ Place.notary = "V" /\ High(Input.fractions, supply) < tx.vout[Place.refs[1]].value

\* The outputs the notary names, marked; two of them share an escrow fairly
MarkedFrozen ==
  LET both == {Place.refs[1], Place.refs[2]}
      old(o) == At(poolFrozen, o, Unfrozen)
  IN  [o \in DOMAIN poolFrozen \union Named |->
         IF o \notin Named THEN poolFrozen[o]
         ELSE [old(o) EXCEPT !.nValue = tx.vout[o].value, !.sAddress = Input.address,
                             !.mark = Place.notary,
                             !.fair = IF Len(Place.refs) = 2 /\ o = Min(both) THEN <<o, Max(both)>> ELSE @]]

Refuse(bad) == bad /\ phase' = "failed" /\ UNCHANGED <<tx, supply, n, pools, poolFrozen, frColdFees, fFreezeAll, outs>>

RefuseInput ==
  /\ phase = "inputs" /\ n <= Len(tx.vin)
  /\ Refuse(IsLocked \/ BadNotary \/ ShortNotary \/ ColdTaken \/ ColdCrossed)

\* Mutant: the liquid of the inputs before is forgotten.
LastInputTaken(liquid) ==
  /\ nLiquidity' = liquid
  /\ n' = n + 1
  /\ UNCHANGED <<tx, supply, phase, frCommonLiquidity, outs>>

\* What all accepted inputs do; `liquid' is the liquid amount left to the pools
InputTaken(liquid) ==
  /\ nLiquidity' = nLiquidity + liquid
  /\ n' = n + 1
  /\ UNCHANGED <<tx, supply, phase, frCommonLiquidity, outs>>

Accepted ==
  /\ phase = "inputs" /\ n <= Len(tx.vin)
  /\ ~ (IsLocked \/ BadNotary \/ ShortNotary \/ ColdTaken \/ ColdCrossed)

TakeInput ==
  /\ Accepted
  /\ ~ IsCold /\ ~ IsFreezing
  /\ poolReserves' = ReserveWithInput /\ poolLiquidity' = LiquidityWithInput
  /\ InputTaken(High(Input.fractions, supply))
  /\ UNCHANGED <<poolFrozen, frColdFees, fFreezeAll>>

\* Mutant: what the output does not take stays in the pools too.
PartDeducted(f, part) == part

\* Of a cold input nothing is left to the pools: what its output does not take is fee
ColdDeducted(f, part) == f

\* The output at the place of a cold input takes its share; if it is not where
\* the coins came from it is frozen
TakeColdInput ==
  /\ Accepted
  /\ IsCold
  /\ LET f == Input.fractions
         part == RatioPart(f, Place.value)
         old == At(poolFrozen, n, Unfrozen)
         deducted == ColdDeducted(f, part)
     IN  /\ poolFrozen' =
              Put(poolFrozen, n, [old EXCEPT !.nValue = Place.value, !.fractions = Plus(@, part),
                                             !.fIsColdOutput = TRUE,
                                             !.mark = IF Place.address = Input.home THEN @ ELSE "F"])
         /\ frColdFees' = Plus(frColdFees, Minus(f, part))
         /\ poolReserves' = Put(ReserveWithInput, Input.address,
                                Minus(ReserveWithInput[Input.address], LowPart(deducted, supply)))
         /\ poolLiquidity' = Put(LiquidityWithInput, Input.address,
                                 Minus(LiquidityWithInput[Input.address], HighPart(deducted, supply)))
         /\ InputTaken(High(f, supply) - High(deducted, supply))
  /\ UNCHANGED fFreezeAll

\* The outputs named are only marked; they are filled with the other outputs
FreezeShared ==
  /\ Accepted
  /\ IsFreezing
  /\ SharedFreeze
  /\ poolReserves' = ReserveWithInput /\ poolLiquidity' = LiquidityWithInput
  /\ poolFrozen' = MarkedFrozen
  /\ fFreezeAll' = TRUE
  /\ InputTaken(High(Input.fractions, supply))
  /\ UNCHANGED frColdFees

\* The one output named is filled now, from the address's reserve or liquidity
\* or, for C, from the input itself
FreezeOne ==
  /\ Accepted
  /\ IsFreezing
  /\ ~ SharedFreeze
  /\ LET a == Input.address
         o == Place.refs[1]
         value == tx.vout[o].value
         part == CASE Place.notary = "F" -> MovedPart(ReserveWithInput[a], value)
                   [] Place.notary = "C" -> RatioPart(Input.fractions, value)
                   [] OTHER -> MovedPart(LiquidityWithInput[a], value)
     IN  /\ poolFrozen' = [MarkedFrozen EXCEPT ![o].fractions = Plus(@, part)]
         /\ poolReserves' = [ReserveWithInput EXCEPT ![a] = Minus(@, LowPart(part, supply))]
         /\ poolLiquidity' = [LiquidityWithInput EXCEPT ![a] = Minus(@, HighPart(part, supply))]
         /\ InputTaken(High(Input.fractions, supply) - High(part, supply))
  /\ UNCHANGED <<frColdFees, fFreezeAll>>

ShareLiquidity ==
  /\ phase = "inputs" /\ n > Len(tx.vin)
  /\ phase' = "outputs" /\ n' = 1
  /\ frCommonLiquidity' = SumAll(poolLiquidity)
  /\ UNCHANGED <<tx, supply, poolReserves, poolLiquidity, nLiquidity, poolFrozen, frColdFees, fFreezeAll, outs>>

-----------------------------------------------------------------------------
(* Outputs *)

Output == tx.vout[n]
Ascending(S) == CHOOSE s \in [1..Cardinality(S) -> S] : \A i, j \in DOMAIN s : i < j => s[i] < s[j]

\* Set aside already, or marked to share a freeze that these outputs are filled from
IsSetAside == n \in DOMAIN poolFrozen /\ (~ fFreezeAll \/ Total(poolFrozen[n].fractions) > 0)
IsSharing == n \in DOMAIN poolFrozen /\ fFreezeAll /\ Total(poolFrozen[n].fractions) = 0

\* Mutant: the change of a payment takes the reserve of every input.
AllSources(out) == Ascending(DOMAIN poolReserves)

\* The addresses whose reserve a plain output may take, in order: its own; all
\* of them to burn or into a notary; none to go to somebody else
ReserveSources(out) ==
  IF out.address \in DOMAIN poolReserves THEN <<out.address>>
  ELSE IF out.address = Burn \/ out.notary \notin {"", "Z"} THEN Ascending(DOMAIN poolReserves)
  ELSE <<>>

\* Mutant: only the address that asked for the freeze is used.
OwnFrozenSources == Ascending({poolFrozen[n].sAddress} \intersect DOMAIN poolReserves)

\* For a shared F freeze the address that asked for it comes first
FrozenSources ==
  LET first == {poolFrozen[n].sAddress} \intersect DOMAIN poolReserves
  IN  Ascending(first) \o Ascending(DOMAIN poolReserves \ first)

\* The first of two outputs leaves the second its fair part of the reserve
FrozenQuota ==
  LET f == poolFrozen[n].fair
      reserve == Total(poolReserves[poolFrozen[n].sAddress])
      v1 == poolFrozen[f[1]].nValue
      v2 == poolFrozen[f[2]].nValue
  IN  IF f # <<>> /\ Cardinality(DOMAIN poolFrozen) = 2 /\ reserve <= v1 + v2 /\ v1 + v2 > 0
        THEN reserve - RatioOf(reserve, v2, v1 + v2)
        ELSE Output.value

\* What each of a sequence of stores gives of an amount, one after the other
Greedy(stores, amount) ==
  LET left(i) == amount - Least(amount, SumOf(stores, 1..(i - 1)))
  IN  [i \in DOMAIN stores |-> Least(left(i), stores[i])]

\* The output takes `quota' from the reserves of `sources', the rest from the
\* common liquidity, or fails if that is too little (P-O-1 to P-O-4)
FillOutput(sources, quota, mark) ==
  LET given == Greedy([i \in DOMAIN sources |-> Total(poolReserves[sources[i]])], quota)
      moved == [i \in DOMAIN sources |-> MovedPart(poolReserves[sources[i]], given[i])]
      rest == Output.value - SumOf(given, DOMAIN sources)
      liquid == MovedPart(frCommonLiquidity, rest)
      taken(a) == SumOver(moved, {i \in DOMAIN sources : sources[i] = a})
  IN  IF (rest > 0 \/ sources = <<>>) /\ rest > nLiquidity
        THEN Refuse(TRUE)
        ELSE /\ outs' = Append(outs, [mark |-> mark,
                                      fractions |-> Plus(SumAll(moved), liquid)])
             /\ poolReserves' = [a \in DOMAIN poolReserves |-> Minus(poolReserves[a], taken(a))]
             /\ frCommonLiquidity' = Minus(frCommonLiquidity, liquid)
             /\ nLiquidity' = nLiquidity - rest
             /\ n' = n + 1
             /\ UNCHANGED <<tx, supply, phase, poolLiquidity, poolFrozen, frColdFees, fFreezeAll>>

PlainOutput ==
  /\ phase = "outputs" /\ n <= Len(tx.vout)
  /\ n \notin DOMAIN poolFrozen
  /\ FillOutput(ReserveSources(Output), Output.value, "")

FrozenOutput ==
  /\ phase = "outputs" /\ n <= Len(tx.vout)
  /\ IsSetAside
  /\ outs' = Append(outs, [mark |-> poolFrozen[n].mark, fractions |-> poolFrozen[n].fractions])
  /\ n' = n + 1
  /\ UNCHANGED <<tx, supply, phase, pools, poolFrozen, frColdFees, fFreezeAll>>

SharedFrozenOutput ==
  /\ phase = "outputs" /\ n <= Len(tx.vout)
  /\ IsSharing
  /\ poolFrozen[n].mark = "F"
  /\ FillOutput(FrozenSources, FrozenQuota, "F")

\* V takes liquidity without asking for enough of it; the totals tell later
SharedVoluntaryOutput ==
  /\ phase = "outputs" /\ n <= Len(tx.vout)
  /\ IsSharing
  /\ poolFrozen[n].mark = "V"
  /\ LET liquid == MovedPart(frCommonLiquidity, Output.value)
     IN  /\ outs' = Append(outs, [mark |-> "V", fractions |-> liquid])
         /\ frCommonLiquidity' = Minus(frCommonLiquidity, liquid)
  /\ nLiquidity' = nLiquidity - Output.value
  /\ n' = n + 1
  /\ UNCHANGED <<tx, supply, phase, poolReserves, poolLiquidity, poolFrozen, frColdFees, fFreezeAll>>

\* L and C are not filled from what is shared
SharedEmptyOutput ==
  /\ phase = "outputs" /\ n <= Len(tx.vout)
  /\ IsSharing
  /\ poolFrozen[n].mark \notin {"F", "V"}
  /\ outs' = Append(outs, [mark |-> "", fractions |-> Zero])
  /\ n' = n + 1
  /\ UNCHANGED <<tx, supply, phase, pools, poolFrozen, frColdFees, fFreezeAll>>

txFeeFractions ==
  Plus(Plus(frCommonLiquidity, frColdFees), SumAll(poolReserves))

Value(S) == SumOf([i \in DOMAIN S |-> S[i].value], DOMAIN S)
ValueIn == SumOf([i \in DOMAIN tx.vin |-> Total(tx.vin[i].fractions)], DOMAIN tx.vin)

\* The totals the code checks at the end (P-G-2 to P-G-4)
TotalsMatch ==
  /\ \A o \in DOMAIN outs : Total(outs[o].fractions) = tx.vout[o].value /\ IsPositive(outs[o].fractions)
  /\ Total(txFeeFractions) = ValueIn - Value(tx.vout)
  /\ IsPositive(txFeeFractions)

Finish ==
  /\ phase = "outputs" /\ n > Len(tx.vout)
  /\ phase' = IF TotalsMatch THEN "done" ELSE "failed"
  /\ UNCHANGED <<tx, supply, n, pools, poolFrozen, frColdFees, fFreezeAll, outs>>

-----------------------------------------------------------------------------
(* The coinstake: one input, whose coins return whole to its address       *)

StakeIn == tx.vin[1]

\* Mutant: any output of that size is taken for the stake's.
AnyStakeOutput(o) == tx.vout[o].value >= Total(StakeIn.fractions)

ReturnsStake(o) == tx.vout[o].value >= Total(StakeIn.fractions) /\ tx.vout[o].address = StakeIn.address

StakeOut == CHOOSE o \in DOMAIN tx.vout : ReturnsStake(o) /\ \A p \in 1..(o - 1) : ~ ReturnsStake(p)

\* The part of the reward that goes with the stake; the other outputs divide
\* what is left of it in their order
RewardOf ==
  LET stakes == MovedPart(tx.reward, tx.vout[StakeOut].value - Total(StakeIn.fractions))
      left[o \in 0..Len(tx.vout)] ==
        IF o = 0 THEN Minus(tx.reward, stakes)
        ELSE IF o = StakeOut THEN left[o - 1]
        ELSE Minus(left[o - 1], MovedPart(left[o - 1], tx.vout[o].value))
  IN  [o \in DOMAIN tx.vout |-> IF o = StakeOut THEN stakes ELSE Minus(left[o - 1], left[o])]

\* The first output is the coinstake's empty one
StakeAllowed ==
  /\ \E o \in DOMAIN tx.vout : ReturnsStake(o)
  /\ StakeOut # 1
  /\ Value(tx.vout) <= Total(StakeIn.fractions) + Total(tx.reward)

CalculateStakingFractions ==
  /\ phase = "stake"
  /\ IF StakeAllowed
       THEN /\ phase' = "done"
            /\ outs' = [o \in DOMAIN tx.vout |->
                          IF o = StakeOut
                            THEN [mark |-> StakeIn.mark, fractions |-> Plus(StakeIn.fractions, RewardOf[o])]
                            ELSE [mark |-> "", fractions |-> RewardOf[o]]]
       ELSE phase' = "failed" /\ UNCHANGED outs
  /\ UNCHANGED <<tx, supply, n, pools, poolFrozen, frColdFees, fFreezeAll>>

-----------------------------------------------------------------------------
Init ==
  /\ \E family \in Transactions : tx \in family
  /\ supply \in Supplies
  /\ phase = IF tx.reward = Null THEN "inputs" ELSE "stake"
  /\ n = 1
  /\ poolReserves = <<>> /\ poolLiquidity = <<>>
  /\ frCommonLiquidity = Zero /\ nLiquidity = 0
  /\ poolFrozen = <<>>
  /\ frColdFees = Zero
  /\ fFreezeAll = FALSE
  /\ outs = <<>>

Next ==
  \/ RefuseInput \/ TakeInput \/ TakeColdInput \/ FreezeShared \/ FreezeOne
  \/ ShareLiquidity
  \/ PlainOutput \/ FrozenOutput \/ SharedFrozenOutput \/ SharedVoluntaryOutput \/ SharedEmptyOutput
  \/ Finish
  \/ CalculateStakingFractions

Spec == Init /\ [][Next]_vars

-----------------------------------------------------------------------------
(* Properties *)

\* At every step each fraction of the inputs taken so far is in exactly one
\* place: a reserve, the liquidity, an output set aside or made, or the cold
\* fee; none is negative.  So outputs and fee together are the inputs.
BooksBalance ==
  LET taken == IF phase = "inputs" THEN 1..(n - 1) ELSE DOMAIN tx.vin
      liquid == IF phase = "inputs" THEN SumAll(poolLiquidity)
                ELSE frCommonLiquidity
      reserve == SumAll(poolReserves)
      aside == SumOver(FractionsOf(poolFrozen), DOMAIN poolFrozen \ DOMAIN outs)
      made == SumAll(FractionsOf(outs))
      places == Plus(Plus(liquid, reserve), Plus(Plus(aside, made), frColdFees))
  IN  tx.reward = Null /\ phase # "failed" =>
        /\ places = SumOver(FractionsOf(tx.vin), taken)
        /\ IsPositive(liquid) /\ IsPositive(frColdFees)
        /\ \A a \in DOMAIN poolReserves : IsPositive(poolReserves[a])

\* The reserve of an address is spent by its own outputs, frozen, burned or put
\* into a notary: outputs to an address never hold more reserve than its inputs
\* brought, those to others none, and what L or V freeze is liquid.
ReserveStaysHome ==
  phase = "done" /\ tx.reward = Null =>
    LET plain(a) == {o \in DOMAIN outs \ DOMAIN poolFrozen :
                       tx.vout[o].address = a /\ tx.vout[o].notary \in {"", "Z"}}
        brought(a) == SumOver(FractionsOf(tx.vin), {i \in DOMAIN tx.vin : tx.vin[i].address = a})
    IN  /\ \A a \in {tx.vout[o].address : o \in DOMAIN outs} \ ({Burn} \ InputAddresses) :
             Low(SumOver(FractionsOf(outs), plain(a)), supply) <= Low(brought(a), supply)
        /\ \A o \in DOMAIN outs : outs[o].mark \in {"L", "V"} => Low(outs[o].fractions, supply) = 0

\* A payment: nothing is frozen, burned or notarised
IsPayment == /\ tx.reward = Null
             /\ \A i \in DOMAIN tx.vin : tx.vin[i].mark = ""
             /\ \A o \in DOMAIN tx.vout : tx.vout[o].notary = "" /\ tx.vout[o].address # Burn

\* What the outputs need beyond the reserve of their own address is liquid
IsPayable ==
  LET value == [o \in DOMAIN tx.vout |-> tx.vout[o].value]
      reserve == [i \in DOMAIN tx.vin |-> Low(tx.vin[i].fractions, supply)]
      liquid == [i \in DOMAIN tx.vin |-> High(tx.vin[i].fractions, supply)]
      addresses == {tx.vout[o].address : o \in DOMAIN tx.vout}
      sent(a) == SumOf(value, {o \in DOMAIN tx.vout : tx.vout[o].address = a})
      kept(a) == SumOf(reserve, {i \in DOMAIN tx.vin : tx.vin[i].address = a})
      beyond == [a \in addresses |-> sent(a) - Least(sent(a), kept(a))]
  IN  SumOf(beyond, addresses) <= SumOf(liquid, DOMAIN tx.vin)

\* A payment is accepted exactly if what leaves its addresses, or exceeds their
\* reserve, is covered by the liquid of all inputs: the order of inputs and
\* outputs and the rounding of shares never decide.
PaymentsNeedLiquidity == IsPayment /\ phase \in {"done", "failed"} => (phase = "done" <=> IsPayable)

\* Staking gives the staked coins back whole, fraction by fraction and with
\* their mark, to the address they were staked from; the other outputs hold
\* parts of the reward only, and all outputs no more than stake and reward.
StakeReturns ==
  phase = "done" /\ tx.reward # Null =>
    /\ \E o \in DOMAIN outs : /\ tx.vout[o].address = StakeIn.address
                              /\ outs[o].mark = StakeIn.mark
                              /\ \A k \in Indexes : outs[o].fractions[k] >= StakeIn.fractions[k]
    /\ \A k \in Indexes : SumAll(FractionsOf(outs))[k]
                               <= StakeIn.fractions[k] + tx.reward[k]
    /\ \A o \in DOMAIN outs : Total(outs[o].fractions) = tx.vout[o].value /\ IsPositive(outs[o].fractions)

\* The coins of a cold input that has an output at its place go to that output
\* and to the fee, and nowhere else (a cold input without coins may leave its
\* place to a shared freeze).  The output is unmarked if it goes back to where
\* the coins came from and frozen if not: no notary can claim it.
ColdReturnsOrFreezes ==
  phase = "done" /\ tx.reward = Null =>
    LET cold == {i \in DOMAIN tx.vin : tx.vin[i].mark = "C" /\ i \in DOMAIN outs /\ Total(tx.vin[i].fractions) > 0}
    IN  /\ Plus(SumOver(FractionsOf(outs), cold), frColdFees)
             = SumOver(FractionsOf(tx.vin), cold)
        /\ \A i \in cold : Total(outs[i].fractions) > 0 =>
             outs[i].mark = IF tx.vout[i].address = tx.vin[i].home THEN "" ELSE "F"
=============================================================================
