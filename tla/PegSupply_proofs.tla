-------------------------- MODULE PegSupply_proofs --------------------------
(***************************************************************************)
(* Proofs about the peg supply index, for every interval length, start     *)
(* height, index range and set of stakes.                                  *)
(***************************************************************************)
EXTENDS PegSupply, Sums_proofs

---------------------------------------------------------------------------
(* Arithmetic of intervals *)

\* A height lies in its interval (PegCycle and the interval start computed in
\* GetNextIntervalPegSupplyIndex).
LEMMA CycleBounds ==
  ASSUME NEW h \in Nat
  PROVE  /\ Cycle(h) \in Nat
         /\ CycleStart(h) \in Nat
         /\ CycleStart(h) = Cycle(h) * PegInterval
         /\ CycleStart(h) <= h
         /\ h < CycleStart(h) + PegInterval
  BY IntervalAssumption DEF Cycle, CycleStart

\* Intervals do not overlap: the bounds determine the cycle number.
LEMMA CycleUnique ==
  ASSUME NEW h \in Nat, NEW c \in Nat,
         c * PegInterval <= h, h < c * PegInterval + PegInterval
  PROVE  Cycle(h) = c
  BY IntervalAssumption DEF Cycle

\* Multiples of the interval, one and two intervals on.
LEMMA Distrib ==
  ASSUME NEW c \in Int
  PROVE  /\ (c + 1) * PegInterval = c * PegInterval + PegInterval
         /\ (c + 2) * PegInterval = c * PegInterval + 2 * PegInterval
         /\ c * PegInterval \in Int
  BY IntervalAssumption

\* The successor of a height starts a new interval exactly when it is a
\* multiple of the interval (the test of GetNextBlockPegSupplyIndex).
LEMMA CycleSuccessor ==
  ASSUME NEW h \in Nat
  PROVE  IF (h + 1) % PegInterval = 0
         THEN /\ Cycle(h + 1) = Cycle(h) + 1
              /\ h + 1 = (Cycle(h) + 1) * PegInterval
         ELSE Cycle(h + 1) = Cycle(h)
  BY IntervalAssumption DEF Cycle

---------------------------------------------------------------------------
(* The vote rules *)

\* The clamp: a computed index is a legal index, and it is at most three steps
\* away from a legal base (ComputeNextPegSupplyIndex).
LEMMA ComputeInRange ==
  ASSUME NEW base \in 0..MaxSupplyIndex,
         NEW use \in BlockIndexes, NEW prev \in BlockIndexes
  PROVE  LET next == ComputeNextPegSupplyIndex(base, use, prev)
         IN  /\ next \in 0..MaxSupplyIndex
             /\ next - base <= 3
             /\ base - next <= 3
  BY IndexAssumption DEF ComputeNextPegSupplyIndex, Steps, BlockIndexes

\* Blocks without votes leave a zero index at zero.
LEMMA ComputeGenesis == ComputeNextPegSupplyIndex(0, Genesis, Genesis) = 0
  BY IndexAssumption DEF ComputeNextPegSupplyIndex, Genesis

\* The first block has the fields of a CBlockIndex.
LEMMA GenesisType == Genesis \in BlockIndexes
  BY IndexAssumption DEF Genesis, BlockIndexes, Ballots

\* A staked coin always gives at least one vote (CalculatePegVotes).
LEMMA VotesType ==
  ASSUME NEW stake \in [reserve : Nat, liquid : Nat], NEW index \in 0..MaxSupplyIndex
  PROVE  CalculatePegVotes(stake, index) \in Nat
<1>1. index \div WeightStep + 1 \in Nat
  BY IndexAssumption
<1> QED
  BY <1>1 DEF CalculatePegVotes

\* CalculateBlockPegVotes yields a well-formed block index.
LEMMA BlockVotesType ==
  ASSUME NEW b \in Blocks, NEW h \in Nat, NEW index \in 0..MaxSupplyIndex,
         NEW prev \in BlockIndexes
  PROVE  /\ CalculateBlockPegVotes(b, h, index, prev) \in BlockIndexes
         /\ CalculateBlockPegVotes(b, h, index, prev).nPegSupplyIndex = index
<1>1. /\ b.stake \in [reserve : Nat, liquid : Nat]
      /\ b.pos \in BOOLEAN
      /\ b.ballot \in Ballots
  <2>1. CASE b \in PowBlocks
    <3>1. b = [pos |-> FALSE, ballot |-> "none", stake |-> [reserve |-> 0, liquid |-> 0]]
      BY <2>1 DEF PowBlocks
    <3>2. b.pos = FALSE /\ b.ballot = "none" /\ b.stake = [reserve |-> 0, liquid |-> 0]
      BY <3>1
    <3>3. b.stake \in [reserve : Nat, liquid : Nat]
      BY <3>2
    <3>4. b.pos \in BOOLEAN
      BY <3>2, Zenon
    <3>5. b.ballot \in Ballots
      BY <3>2 DEF Ballots
    <3> QED
      BY <3>3, <3>4, <3>5
  <2>2. CASE b \in PosBlocks
    BY <2>2, StakesAssumption DEF PosBlocks
  <2> QED
    BY <2>1, <2>2 DEF Blocks
<1>2. CalculatePegVotes(b.stake, index) \in Nat
  BY <1>1, VotesType
<1> QED
  BY <1>1, <1>2 DEF CalculateBlockPegVotes, BlockIndexes

---------------------------------------------------------------------------
(* Type correctness *)

\* GetNextBlockPegSupplyIndex yields a legal index, at most three steps from
\* the index of the block it is asked of, and only at the first block of an
\* interval a different one.
LEMMA NextBlockInRange ==
  ASSUME TypeOK
  PROVE  LET next == GetNextBlockPegSupplyIndex(chain, tip)
             index == chain[tip].nPegSupplyIndex
         IN  /\ next \in 0..MaxSupplyIndex
             /\ next - index <= 3
             /\ index - next <= 3
             /\ (tip + 1) % PegInterval # 0 => next = index
<1>1. /\ tip \in Nat
      /\ tip + 1 >= PegStartHeight
      /\ chain \in [0..tip -> BlockIndexes]
  BY IntervalAssumption DEF TypeOK
<1>2. chain[tip] \in BlockIndexes
  BY <1>1
<1>3. chain[tip].nPegSupplyIndex \in 0..MaxSupplyIndex
  BY <1>2 DEF BlockIndexes
<1>4. CASE (tip + 1) % PegInterval # 0
  BY <1>1, <1>3, <1>4, IntervalAssumption, IndexAssumption
     DEF GetNextBlockPegSupplyIndex
<1>5. CASE (tip + 1) % PegInterval = 0
  <2>1. /\ (tip + 1) - 2 * PegInterval - 1 \in 0..tip
        /\ (tip + 1) - 3 * PegInterval - 1 \in 0..tip
    BY <1>1, IntervalAssumption
  <2>2. /\ chain[(tip + 1) - 2 * PegInterval - 1] \in BlockIndexes
        /\ chain[(tip + 1) - 3 * PegInterval - 1] \in BlockIndexes
    BY <1>1, <2>1
  <2>3. GetNextBlockPegSupplyIndex(chain, tip) =
          ComputeNextPegSupplyIndex(chain[tip].nPegSupplyIndex,
                                    chain[(tip + 1) - 2 * PegInterval - 1],
                                    chain[(tip + 1) - 3 * PegInterval - 1])
    BY <1>1, <1>5, IntervalAssumption DEF GetNextBlockPegSupplyIndex
  <2> QED
    BY <1>3, <1>5, <2>2, <2>3, ComputeInRange
<1> QED
  BY <1>4, <1>5

\* The forecasts of a block of the peg era are legal indexes.
LEMMA ForecastInRange ==
  ASSUME TypeOK, tip >= PegStartHeight
  PROVE  /\ GetNextIntervalPegSupplyIndex(chain, tip) \in 0..MaxSupplyIndex
         /\ GetNextNextIntervalPegSupplyIndex(chain, tip) \in 0..MaxSupplyIndex
<1> DEFINE S == CycleStart(tip)
<1>1. /\ tip \in Nat
      /\ chain \in [0..tip -> BlockIndexes]
  BY DEF TypeOK
<1>2. S \in Nat /\ S <= tip /\ tip < S + PegInterval
  BY <1>1, CycleBounds
<1>3. /\ S - 1 \in 0..tip
      /\ S - PegInterval - 1 \in 0..tip
      /\ S - 2 * PegInterval - 1 \in 0..tip
  BY <1>1, <1>2, IntervalAssumption
<1>4. /\ chain[S - 1] \in BlockIndexes
      /\ chain[S - PegInterval - 1] \in BlockIndexes
      /\ chain[S - 2 * PegInterval - 1] \in BlockIndexes
  BY <1>1, <1>3
<1>5. chain[tip].nPegSupplyIndex \in 0..MaxSupplyIndex
  BY <1>1 DEF BlockIndexes
<1>6. GetNextIntervalPegSupplyIndex(chain, tip) =
        ComputeNextPegSupplyIndex(chain[tip].nPegSupplyIndex,
                                  chain[S - PegInterval - 1],
                                  chain[S - 2 * PegInterval - 1])
  BY <1>1, IntervalAssumption DEF GetNextIntervalPegSupplyIndex
<1>7. GetNextNextIntervalPegSupplyIndex(chain, tip) =
        ComputeNextPegSupplyIndex(GetNextIntervalPegSupplyIndex(chain, tip),
                                  chain[S - 1],
                                  chain[S - PegInterval - 1])
  BY <1>1, IntervalAssumption DEF GetNextNextIntervalPegSupplyIndex
<1> HIDE DEF S
<1>8. GetNextIntervalPegSupplyIndex(chain, tip) \in 0..MaxSupplyIndex
  BY <1>4, <1>5, <1>6, ComputeInRange
<1> QED
  BY <1>4, <1>7, <1>8, ComputeInRange

\* The types hold of the first block.
LEMMA TypeInit == Init => TypeOK
<1> SUFFICES ASSUME Init PROVE TypeOK
  OBVIOUS
<1>1. tip \in Nat /\ tip >= PegStartHeight - 1
  BY IntervalAssumption DEF Init
<1>2. chain \in [0..tip -> BlockIndexes]
  BY GenesisType DEF Init
<1>3. quote \in Quotes
  BY IndexAssumption DEF Init, NoQuote, Quotes
<1> QED
  BY <1>1, <1>2, <1>3 DEF TypeOK

\* Connecting, disconnecting and quoting keep the types.
LEMMA TypeStep == TypeOK /\ [Next]_vars => TypeOK'
<1> SUFFICES ASSUME TypeOK, [Next]_vars PROVE TypeOK'
  OBVIOUS
<1>0. /\ tip \in Nat
      /\ tip >= PegStartHeight - 1
      /\ chain \in [0..tip -> BlockIndexes]
      /\ quote \in Quotes
  BY DEF TypeOK
<1>1. ASSUME NEW b \in Blocks, ConnectBlock(b) PROVE TypeOK'
  <2> DEFINE index == GetNextBlockPegSupplyIndex(chain, tip)
  <2> DEFINE pindex == CalculateBlockPegVotes(b, tip + 1, index, chain[tip])
  <2>1. index \in 0..MaxSupplyIndex
    BY NextBlockInRange
  <2>2. pindex \in BlockIndexes
    BY <1>0, <2>1, BlockVotesType
  <2>3. /\ tip' = tip + 1
        /\ chain' = [h \in 0..(tip + 1) |-> IF h = tip + 1 THEN pindex ELSE chain[h]]
        /\ quote' = quote
    BY <1>1 DEF ConnectBlock
  <2> HIDE DEF pindex
  <2>4. chain' \in [0..tip' -> BlockIndexes]
    BY <1>0, <2>2, <2>3
  <2> QED
    BY <1>0, <2>3, <2>4, IntervalAssumption DEF TypeOK
<1>2. CASE DisconnectTip
  <2>1. /\ tip' = tip - 1
        /\ tip >= PegStartHeight
        /\ chain' = [h \in 0..(tip - 1) |-> chain[h]]
        /\ quote' \in Quotes
    BY <1>0, <1>2, IndexAssumption DEF DisconnectTip, NoQuote, Quotes
  <2>2. chain' \in [0..tip' -> BlockIndexes]
    BY <1>0, <2>1
  <2> QED
    BY <1>0, <2>1, <2>2, IntervalAssumption DEF TypeOK
<1>3. CASE WalletQuery
  <2>1. Cycle(tip) \in Nat /\ CycleStart(tip) \in Nat
    BY <1>0, CycleBounds
  <2>2. quote' \in Quotes
    BY <1>3, <2>1, ForecastInRange DEF WalletQuery, Quotes
  <2> QED
    BY <1>0, <1>3, <2>2 DEF WalletQuery, TypeOK
<1>4. CASE UNCHANGED vars
  BY <1>4 DEF vars, TypeOK
<1> QED
  BY <1>1, <1>2, <1>3, <1>4 DEF Next

\* Every index the chain or a forecast ever holds is between 0 and
\* nPegMaxSupplyIndex, and no walk back to old votes leaves the chain.
THEOREM TypeCorrect == Spec => []TypeOK
  BY TypeInit, TypeStep, PTL DEF Spec

---------------------------------------------------------------------------
(* The chain invariant *)

\* The index of the interval that starts at height s, one and two intervals
\* later, as fixed by the blocks below s.
ForecastNext(c, s) ==
  ComputeNextPegSupplyIndex(GetNextBlockPegSupplyIndex(c, s - 1),
                            c[s - PegInterval - 1],
                            c[s - 2 * PegInterval - 1])
ForecastNextNext(c, s) ==
  ComputeNextPegSupplyIndex(ForecastNext(c, s),
                            c[s - 1],
                            c[s - PegInterval - 1])

\* Interval starts from which both walks stay on the chain.
Foreseeable(s) == s > 2 * PegInterval

\* Every block has the index its predecessor announces.
Chained ==
  \A h \in 1..tip : chain[h].nPegSupplyIndex = GetNextBlockPegSupplyIndex(chain, h - 1)

\* The blocks below the start of an interval fix the indexes of the next two.
Foreseen ==
  \A c \in Nat, h \in 0..tip : Foreseeable(c * PegInterval) =>
    /\ Cycle(h) = c + 1
         => chain[h].nPegSupplyIndex = ForecastNext(chain, c * PegInterval)
    /\ Cycle(h) = c + 2
         => chain[h].nPegSupplyIndex = ForecastNextNext(chain, c * PegInterval)

\* A live quote is what the blocks below its interval fix.
QuoteFits ==
  quote # NoQuote =>
    /\ quote.cycle \in Nat
    /\ quote.start = quote.cycle * PegInterval
    /\ quote.start - 1 <= tip
    /\ Foreseeable(quote.start)
    /\ quote.next = ForecastNext(chain, quote.start)
    /\ quote.nextnext = ForecastNextNext(chain, quote.start)

\* The inductive invariant.
ChainInv ==
  /\ TypeOK
  /\ IndexConstantInInterval
  /\ StepAtMostBuffer
  /\ Chained
  /\ Foreseen
  /\ QuoteFits

\* What is read of the blocks below s does not depend on the blocks above.
LEMMA ForecastsLocal ==
  ASSUME NEW c1, NEW c2, NEW s \in Nat, Foreseeable(s),
         \A h \in 0..(s - 1) : c1[h] = c2[h]
  PROVE  /\ ForecastNext(c1, s) = ForecastNext(c2, s)
         /\ ForecastNextNext(c1, s) = ForecastNextNext(c2, s)
<1>1. /\ s - 1 \in 0..(s - 1)
      /\ s - PegInterval - 1 \in 0..(s - 1)
      /\ s - 2 * PegInterval - 1 \in 0..(s - 1)
  BY IntervalAssumption DEF Foreseeable
<1>2. GetNextBlockPegSupplyIndex(c1, s - 1) = GetNextBlockPegSupplyIndex(c2, s - 1)
  <2>1. CASE s < PegStartHeight
    BY <2>1 DEF GetNextBlockPegSupplyIndex
  <2>2. CASE s >= PegStartHeight
    <3>1. /\ (s - 1 + 1) - 2 * PegInterval - 1 \in 0..(s - 1)
          /\ (s - 1 + 1) - 3 * PegInterval - 1 \in 0..(s - 1)
      BY <2>2, IntervalAssumption
    <3>2. /\ c1[s - 1] = c2[s - 1]
          /\ c1[(s - 1 + 1) - 2 * PegInterval - 1] = c2[(s - 1 + 1) - 2 * PegInterval - 1]
          /\ c1[(s - 1 + 1) - 3 * PegInterval - 1] = c2[(s - 1 + 1) - 3 * PegInterval - 1]
      BY <1>1, <3>1
    <3> QED
      BY <3>2 DEF GetNextBlockPegSupplyIndex
  <2> QED
    BY <2>1, <2>2, IntervalAssumption
<1>3. /\ c1[s - 1] = c2[s - 1]
      /\ c1[s - PegInterval - 1] = c2[s - PegInterval - 1]
      /\ c1[s - 2 * PegInterval - 1] = c2[s - 2 * PegInterval - 1]
  BY <1>1
<1>4. ForecastNext(c1, s) = ForecastNext(c2, s)
  BY <1>2, <1>3 DEF ForecastNext
<1> QED
  BY <1>3, <1>4 DEF ForecastNextNext

\* The same for one block.
LEMMA NextBlockLocal ==
  ASSUME NEW c1, NEW c2, NEW n \in Nat,
         \A h \in 0..n : c1[h] = c2[h]
  PROVE  GetNextBlockPegSupplyIndex(c1, n) = GetNextBlockPegSupplyIndex(c2, n)
<1>1. CASE n + 1 < PegStartHeight
  BY <1>1 DEF GetNextBlockPegSupplyIndex
<1>2. CASE n + 1 >= PegStartHeight
  <2>1. /\ n \in 0..n
        /\ (n + 1) - 2 * PegInterval - 1 \in 0..n
        /\ (n + 1) - 3 * PegInterval - 1 \in 0..n
    BY <1>2, IntervalAssumption
  <2>2. /\ c1[n] = c2[n]
        /\ c1[(n + 1) - 2 * PegInterval - 1] = c2[(n + 1) - 2 * PegInterval - 1]
        /\ c1[(n + 1) - 3 * PegInterval - 1] = c2[(n + 1) - 3 * PegInterval - 1]
    BY <2>1
  <2> QED
    BY <2>2 DEF GetNextBlockPegSupplyIndex
<1> QED
  BY <1>1, <1>2, IntervalAssumption

\* The cycle number grows with the height.
LEMMA CycleMonotone ==
  ASSUME NEW g \in Nat, NEW h \in Nat, g <= h
  PROVE  Cycle(g) <= Cycle(h)
  BY IntervalAssumption DEF Cycle

\* The first block of an interval is at its start.
LEMMA CycleOfStart ==
  ASSUME NEW c \in Nat
  PROVE  c * PegInterval \in Nat /\ Cycle(c * PegInterval) = c
<1>1. c * PegInterval \in Nat
  BY IntervalAssumption
<1> QED
  BY <1>1, CycleUnique, IntervalAssumption

\* The first block has no predecessor to be computed from.
LEMMA ChainInit == Init => ChainInv
<1> SUFFICES ASSUME Init PROVE ChainInv
  OBVIOUS
<1>1. TypeOK
  BY TypeInit
<1>2. /\ tip = PegStartHeight - 1
      /\ tip \in Nat
      /\ \A h \in 0..tip : chain[h] = Genesis
      /\ quote = NoQuote
  BY IntervalAssumption DEF Init
<1>3. \A h \in 0..tip : chain[h].nPegSupplyIndex = 0
  BY <1>2 DEF Genesis
<1>4. IndexConstantInInterval /\ StepAtMostBuffer
  BY <1>3 DEF IndexConstantInInterval, StepAtMostBuffer
<1>5. \A h \in 1..tip : GetNextBlockPegSupplyIndex(chain, h - 1) = 0
  BY <1>2, IntervalAssumption DEF GetNextBlockPegSupplyIndex
<1>6. Chained
  BY <1>2, <1>3, <1>5 DEF Chained
<1>7. Foreseen
  <2> SUFFICES ASSUME NEW c \in Nat, NEW h \in 0..tip, Foreseeable(c * PegInterval),
                      Cycle(h) = c + 1 \/ Cycle(h) = c + 2
               PROVE  /\ ForecastNext(chain, c * PegInterval) = 0
                      /\ ForecastNextNext(chain, c * PegInterval) = 0
    BY <1>3 DEF Foreseen
  <2> DEFINE s == c * PegInterval
  <2>1. s \in Nat /\ s <= h
    <3>1. s \in Nat
      BY IntervalAssumption
    <3>2. Cycle(h) * PegInterval <= h
      BY <1>2, CycleBounds
    <3> QED
      BY <1>2, <3>1, <3>2, Distrib, IntervalAssumption
  <2> HIDE DEF s
  <2>2. Foreseeable(s)
    BY DEF s
  <2>3. /\ s \in 1..tip
        /\ s - 1 \in 0..tip
        /\ s - PegInterval - 1 \in 0..tip
        /\ s - 2 * PegInterval - 1 \in 0..tip
    BY <1>2, <2>1, <2>2, IntervalAssumption DEF Foreseeable
  <2>4. ForecastNext(chain, s) = 0
    BY <1>2, <1>5, <2>3, ComputeGenesis DEF ForecastNext
  <2>5. ForecastNextNext(chain, s) = 0
    BY <1>2, <2>3, <2>4, ComputeGenesis DEF ForecastNextNext
  <2> QED
    BY <2>4, <2>5 DEF s
<1>8. QuoteFits
  BY <1>2 DEF QuoteFits
<1> QED
  BY <1>1, <1>4, <1>6, <1>7, <1>8 DEF ChainInv

\* Connecting a block keeps the chain invariant.
LEMMA ChainConnect ==
  ASSUME ChainInv, NEW b \in Blocks, ConnectBlock(b)
  PROVE  ChainInv'
<1> DEFINE n == tip + 1
<1> DEFINE index == GetNextBlockPegSupplyIndex(chain, tip)
<1> DEFINE pindex == CalculateBlockPegVotes(b, tip + 1, index, chain[tip])
<1>1. /\ tip \in Nat
      /\ n \in Nat
      /\ n >= PegStartHeight
      /\ chain \in [0..tip -> BlockIndexes]
  BY IntervalAssumption DEF ChainInv, TypeOK
<1>2. /\ index \in 0..MaxSupplyIndex
      /\ index - chain[tip].nPegSupplyIndex <= 3
      /\ chain[tip].nPegSupplyIndex - index <= 3
      /\ n % PegInterval # 0 => index = chain[tip].nPegSupplyIndex
  BY NextBlockInRange DEF ChainInv
<1>3. pindex.nPegSupplyIndex = index
  BY <1>1, <1>2, BlockVotesType
<1>4. /\ tip' = n
      /\ \A h \in 0..tip : chain'[h] = chain[h]
      /\ chain'[n].nPegSupplyIndex = index
      /\ quote' = quote
  BY <1>1, <1>3 DEF ConnectBlock
<1>5. TypeOK'
  BY TypeStep DEF ChainInv, Next
<1>6. \A h \in 0..n : h \in 0..tip \/ h = n
  BY <1>1
<1>7. \A h \in 0..tip : chain'[h].nPegSupplyIndex = chain[h].nPegSupplyIndex
  BY <1>4
<1>8. \A h \in 0..tip : chain[h].nPegSupplyIndex \in 0..MaxSupplyIndex
  BY <1>1 DEF BlockIndexes
<1>9. tip \in 0..tip
  BY <1>1
\* The new block in its interval: it extends the interval of its predecessor
\* with the same index, or it starts the next one.
<1>10. \/ /\ n % PegInterval # 0
          /\ Cycle(n) = Cycle(tip)
          /\ index = chain[tip].nPegSupplyIndex
       \/ /\ n % PegInterval = 0
          /\ Cycle(n) = Cycle(tip) + 1
          /\ n = (Cycle(tip) + 1) * PegInterval
  BY <1>1, <1>2, CycleSuccessor
<1>11. Cycle(tip) \in Nat /\ Cycle(n) \in Nat
  BY <1>1, CycleBounds
<1>12. \A h \in 0..tip : Cycle(h) \in Nat /\ Cycle(h) <= Cycle(tip)
  <2> SUFFICES ASSUME NEW h \in 0..tip
               PROVE  Cycle(h) \in Nat /\ Cycle(h) <= Cycle(tip)
    OBVIOUS
  <2>1. h \in Nat /\ h <= tip
    BY <1>1
  <2> QED
    BY <1>1, <2>1, CycleBounds, CycleMonotone
<1> HIDE DEF index, pindex
<1>13. IndexConstantInInterval'
  <2> SUFFICES ASSUME NEW h \in 0..tip, Cycle(h) = Cycle(n)
               PROVE  chain[h].nPegSupplyIndex = index
    BY <1>4, <1>6, <1>7 DEF IndexConstantInInterval, ChainInv
  <2>1. Cycle(n) = Cycle(tip) /\ index = chain[tip].nPegSupplyIndex
    BY <1>10, <1>11, <1>12
  <2> QED
    BY <1>9, <2>1 DEF ChainInv, IndexConstantInInterval
<1>14. StepAtMostBuffer'
  <2> SUFFICES ASSUME NEW h \in 0..tip,
                      Cycle(n) = Cycle(h) + 1 \/ Cycle(h) = Cycle(n) + 1
               PROVE  /\ index - chain[h].nPegSupplyIndex <= 3
                      /\ chain[h].nPegSupplyIndex - index <= 3
    BY <1>4, <1>6, <1>7, <1>11 DEF StepAtMostBuffer, ChainInv
  <2>1. Cycle(n) = Cycle(h) + 1
    BY <1>10, <1>11, <1>12
  <2>2. CASE Cycle(n) = Cycle(tip) /\ index = chain[tip].nPegSupplyIndex
    BY <1>9, <2>1, <2>2 DEF ChainInv, StepAtMostBuffer
  <2>3. CASE Cycle(n) = Cycle(tip) + 1
    <3>1. chain[h].nPegSupplyIndex = chain[tip].nPegSupplyIndex
      BY <1>9, <1>11, <1>12, <2>1, <2>3 DEF ChainInv, IndexConstantInInterval
    <3> QED
      BY <1>2, <3>1
  <2> QED
    BY <1>10, <2>2, <2>3
<1>15. Chained'
  <2> SUFFICES ASSUME NEW h \in 1..n
               PROVE  chain'[h].nPegSupplyIndex = GetNextBlockPegSupplyIndex(chain', h - 1)
    BY <1>4 DEF Chained
  <2>1. h - 1 \in Nat /\ \A k \in 0..(h - 1) : k \in 0..tip
    BY <1>1
  <2>2. GetNextBlockPegSupplyIndex(chain', h - 1) = GetNextBlockPegSupplyIndex(chain, h - 1)
    BY <1>4, <2>1, NextBlockLocal
  <2>3. CASE h = n
    BY <1>1, <1>4, <2>2, <2>3 DEF index
  <2>4. CASE h \in 1..tip
    BY <1>7, <2>2, <2>4 DEF ChainInv, Chained
  <2> QED
    BY <1>1, <2>3, <2>4
<1>16. Foreseen'
  <2> SUFFICES ASSUME NEW c \in Nat, NEW h \in 0..n, Foreseeable(c * PegInterval)
               PROVE  /\ Cycle(h) = c + 1
                           => chain'[h].nPegSupplyIndex = ForecastNext(chain', c * PegInterval)
                      /\ Cycle(h) = c + 2
                           => chain'[h].nPegSupplyIndex = ForecastNextNext(chain', c * PegInterval)
    BY <1>4 DEF Foreseen
  <2> DEFINE s == c * PegInterval
  <2>1. s \in Nat /\ Cycle(s) = c /\ Foreseeable(s)
    BY CycleOfStart
  <2>2. SUFFICES ASSUME Cycle(h) = c + 1 \/ Cycle(h) = c + 2
                 PROVE  /\ Cycle(h) = c + 1 => chain'[h].nPegSupplyIndex = ForecastNext(chain', s)
                        /\ Cycle(h) = c + 2 => chain'[h].nPegSupplyIndex = ForecastNextNext(chain', s)
    OBVIOUS
  <2>3. s <= h /\ s \in 0..tip /\ s >= 1
    <3>1. ~(h <= s)
      BY <1>1, <2>1, <2>2, CycleMonotone
    <3> QED
      BY <1>1, <2>1, <3>1, IntervalAssumption DEF Foreseeable
  <2>4. /\ ForecastNext(chain', s) = ForecastNext(chain, s)
        /\ ForecastNextNext(chain', s) = ForecastNextNext(chain, s)
    <3>1. \A k \in 0..(s - 1) : chain'[k] = chain[k]
      BY <1>1, <1>4, <2>3
    <3> QED
      BY <2>1, <3>1, ForecastsLocal
  <2>5. ASSUME NEW k \in 0..tip
        PROVE  /\ Cycle(k) = c + 1 => chain[k].nPegSupplyIndex = ForecastNext(chain, s)
               /\ Cycle(k) = c + 2 => chain[k].nPegSupplyIndex = ForecastNextNext(chain, s)
    BY DEF ChainInv, Foreseen
  <2>6. CASE h \in 0..tip
    BY <1>7, <2>4, <2>5, <2>6
  <2>7. CASE h = n /\ Cycle(n) = Cycle(tip) /\ index = chain[tip].nPegSupplyIndex
    BY <1>4, <1>9, <2>4, <2>5, <2>7
  <2>8. CASE h = n /\ n % PegInterval = 0 /\ Cycle(n) = Cycle(tip) + 1
             /\ n = (Cycle(tip) + 1) * PegInterval
    <3>1. index = ComputeNextPegSupplyIndex(chain[tip].nPegSupplyIndex,
                                            chain[n - 2 * PegInterval - 1],
                                            chain[n - 3 * PegInterval - 1])
      BY <1>1, <2>8, IntervalAssumption DEF index, GetNextBlockPegSupplyIndex
    <3>2. CASE Cycle(h) = c + 1
      <4>1. Cycle(tip) = c /\ n = s + PegInterval
        <5>1. Cycle(tip) = c
          BY <1>11, <2>8, <3>2
        <5> QED
          BY <2>8, <5>1, Distrib
      <4>2. chain[tip].nPegSupplyIndex = GetNextBlockPegSupplyIndex(chain, s - 1)
        <5>1. chain[tip].nPegSupplyIndex = chain[s].nPegSupplyIndex
          BY <1>9, <2>1, <2>3, <4>1 DEF ChainInv, IndexConstantInInterval
        <5>2. s \in 1..tip
          BY <2>3
        <5> QED
          BY <5>1, <5>2 DEF ChainInv, Chained
      <4>3. /\ n - 2 * PegInterval - 1 = s - PegInterval - 1
            /\ n - 3 * PegInterval - 1 = s - 2 * PegInterval - 1
        BY <2>1, <4>1, IntervalAssumption
      <4>4. index = ForecastNext(chain, s)
        BY <3>1, <4>2, <4>3 DEF ForecastNext
      <4> QED
        BY <1>4, <2>4, <2>8, <3>2, <4>4
    <3>3. CASE Cycle(h) = c + 2
      <4>1. Cycle(tip) = c + 1 /\ n = s + 2 * PegInterval
        BY <1>11, <2>8, <3>3, Distrib
      <4>2. chain[tip].nPegSupplyIndex = ForecastNext(chain, s)
        BY <1>9, <2>5, <4>1
      <4>3. /\ n - 2 * PegInterval - 1 = s - 1
            /\ n - 3 * PegInterval - 1 = s - PegInterval - 1
        BY <2>1, <4>1, IntervalAssumption
      <4>4. index = ForecastNextNext(chain, s)
        BY <3>1, <4>2, <4>3 DEF ForecastNextNext
      <4> QED
        BY <1>4, <2>4, <2>8, <3>3, <4>4
    <3> QED
      BY <2>2, <3>2, <3>3
  <2> QED
    BY <1>6, <1>10, <2>6, <2>7, <2>8
<1>17. QuoteFits'
  <2> SUFFICES ASSUME quote # NoQuote
               PROVE  /\ quote.cycle \in Nat
                      /\ quote.start = quote.cycle * PegInterval
                      /\ quote.start - 1 <= n
                      /\ Foreseeable(quote.start)
                      /\ quote.next = ForecastNext(chain', quote.start)
                      /\ quote.nextnext = ForecastNextNext(chain', quote.start)
    BY <1>4 DEF QuoteFits
  <2>1. /\ quote.cycle \in Nat
        /\ quote.start = quote.cycle * PegInterval
        /\ quote.start - 1 <= tip
        /\ Foreseeable(quote.start)
        /\ quote.next = ForecastNext(chain, quote.start)
        /\ quote.nextnext = ForecastNextNext(chain, quote.start)
    BY DEF ChainInv, QuoteFits
  <2>2. quote.start \in Nat
    BY <2>1, CycleOfStart
  <2>3. \A k \in 0..(quote.start - 1) : chain'[k] = chain[k]
    BY <1>1, <1>4, <2>1, <2>2
  <2>4. /\ ForecastNext(chain', quote.start) = ForecastNext(chain, quote.start)
        /\ ForecastNextNext(chain', quote.start) = ForecastNextNext(chain, quote.start)
    BY <2>1, <2>2, <2>3, ForecastsLocal
  <2> QED
    BY <1>1, <2>1, <2>2, <2>4
<1> QED
  BY <1>5, <1>13, <1>14, <1>15, <1>16, <1>17 DEF ChainInv

\* Disconnecting the best block keeps it: the rest of the chain is untouched,
\* and a quote survives only while the blocks that fix it do.
LEMMA ChainDisconnect ==
  ASSUME ChainInv, DisconnectTip
  PROVE  ChainInv'
<1>1. /\ tip \in Nat
      /\ tip >= PegStartHeight
      /\ tip - 1 \in Nat
      /\ tip' = tip - 1
      /\ \A h \in 0..(tip - 1) : h \in 0..tip /\ chain'[h] = chain[h]
  BY IntervalAssumption DEF ChainInv, TypeOK, DisconnectTip
<1>2. TypeOK'
  BY TypeStep DEF ChainInv, Next
<1>3. IndexConstantInInterval' /\ StepAtMostBuffer'
  BY <1>1 DEF ChainInv, IndexConstantInInterval, StepAtMostBuffer
<1>4. Chained'
  <2> SUFFICES ASSUME NEW h \in 1..(tip - 1)
               PROVE  chain'[h].nPegSupplyIndex = GetNextBlockPegSupplyIndex(chain', h - 1)
    BY <1>1 DEF Chained
  <2>1. h - 1 \in Nat /\ h \in 1..tip /\ h \in 0..(tip - 1)
    BY <1>1
  <2>2. \A k \in 0..(h - 1) : chain'[k] = chain[k]
    BY <1>1
  <2>3. GetNextBlockPegSupplyIndex(chain', h - 1) = GetNextBlockPegSupplyIndex(chain, h - 1)
    BY <2>1, <2>2, NextBlockLocal
  <2> QED
    BY <1>1, <2>1, <2>3 DEF ChainInv, Chained
<1>5. Foreseen'
  <2> SUFFICES ASSUME NEW c \in Nat, NEW h \in 0..(tip - 1), Foreseeable(c * PegInterval),
                      Cycle(h) = c + 1 \/ Cycle(h) = c + 2
               PROVE  /\ Cycle(h) = c + 1
                           => chain'[h].nPegSupplyIndex = ForecastNext(chain', c * PegInterval)
                      /\ Cycle(h) = c + 2
                           => chain'[h].nPegSupplyIndex = ForecastNextNext(chain', c * PegInterval)
    BY <1>1 DEF Foreseen
  <2> DEFINE s == c * PegInterval
  <2>1. s \in Nat /\ Cycle(s) = c /\ Foreseeable(s)
    BY CycleOfStart
  <2>2. ~(h <= s)
    BY <1>1, <2>1, CycleMonotone
  <2>3. \A k \in 0..(s - 1) : chain'[k] = chain[k]
    BY <1>1, <2>1, <2>2
  <2>4. /\ ForecastNext(chain', s) = ForecastNext(chain, s)
        /\ ForecastNextNext(chain', s) = ForecastNextNext(chain, s)
    BY <2>1, <2>3, ForecastsLocal
  <2>5. /\ Cycle(h) = c + 1 => chain[h].nPegSupplyIndex = ForecastNext(chain, s)
        /\ Cycle(h) = c + 2 => chain[h].nPegSupplyIndex = ForecastNextNext(chain, s)
    BY <1>1 DEF ChainInv, Foreseen
  <2> QED
    BY <1>1, <2>4, <2>5
<1>6. QuoteFits'
  <2> SUFFICES ASSUME quote' # NoQuote
               PROVE  /\ quote'.cycle \in Nat
                      /\ quote'.start = quote'.cycle * PegInterval
                      /\ quote'.start - 1 <= tip - 1
                      /\ Foreseeable(quote'.start)
                      /\ quote'.next = ForecastNext(chain', quote'.start)
                      /\ quote'.nextnext = ForecastNextNext(chain', quote'.start)
    BY <1>1 DEF QuoteFits
  <2>1. quote' = quote /\ ~(tip < quote.start) /\ quote # NoQuote
    BY DEF DisconnectTip
  <2>2. /\ quote.cycle \in Nat
        /\ quote.start = quote.cycle * PegInterval
        /\ Foreseeable(quote.start)
        /\ quote.next = ForecastNext(chain, quote.start)
        /\ quote.nextnext = ForecastNextNext(chain, quote.start)
    BY <2>1 DEF ChainInv, QuoteFits
  <2>3. quote.start \in Nat
    BY <2>2, CycleOfStart
  <2>4. \A k \in 0..(quote.start - 1) : chain'[k] = chain[k]
    BY <1>1, <2>1, <2>3
  <2>5. /\ ForecastNext(chain', quote.start) = ForecastNext(chain, quote.start)
        /\ ForecastNextNext(chain', quote.start) = ForecastNextNext(chain, quote.start)
    BY <2>2, <2>3, <2>4, ForecastsLocal
  <2> QED
    BY <1>1, <2>1, <2>2, <2>3, <2>5
<1> QED
  BY <1>2, <1>3, <1>4, <1>5, <1>6 DEF ChainInv

\* A forecast taken at the best block is the one its interval's start fixes.
LEMMA ChainQuery ==
  ASSUME ChainInv, WalletQuery
  PROVE  ChainInv'
<1> DEFINE s == CycleStart(tip)
<1>1. /\ tip \in Nat
      /\ tip >= PegStartHeight
      /\ tip' = tip
      /\ chain' = chain
      /\ quote' = [cycle |-> Cycle(tip), start |-> s,
                   next |-> GetNextIntervalPegSupplyIndex(chain, tip),
                   nextnext |-> GetNextNextIntervalPegSupplyIndex(chain, tip)]
  BY DEF ChainInv, TypeOK, WalletQuery
<1>2. /\ Cycle(tip) \in Nat
      /\ s \in Nat
      /\ s = Cycle(tip) * PegInterval
      /\ s <= tip
      /\ tip < s + PegInterval
  BY <1>1, CycleBounds
<1>3. TypeOK'
  BY TypeStep DEF ChainInv, Next
<1>4. Foreseeable(s) /\ s \in 1..tip
  BY <1>1, <1>2, IntervalAssumption DEF Foreseeable
<1>5. chain[tip].nPegSupplyIndex = GetNextBlockPegSupplyIndex(chain, s - 1)
  <2>1. Cycle(s) = Cycle(tip)
    BY <1>2, CycleOfStart
  <2>2. chain[tip].nPegSupplyIndex = chain[s].nPegSupplyIndex
    BY <1>1, <1>2, <2>1 DEF ChainInv, IndexConstantInInterval
  <2> QED
    BY <1>4, <2>2 DEF ChainInv, Chained
<1>6. GetNextIntervalPegSupplyIndex(chain, tip) = ForecastNext(chain, s)
  BY <1>1, <1>5, IntervalAssumption DEF GetNextIntervalPegSupplyIndex, ForecastNext
<1>7. GetNextNextIntervalPegSupplyIndex(chain, tip) = ForecastNextNext(chain, s)
  BY <1>1, <1>6, IntervalAssumption DEF GetNextNextIntervalPegSupplyIndex, ForecastNextNext
<1> HIDE DEF s
<1>8. QuoteFits'
  BY <1>1, <1>2, <1>4, <1>6, <1>7 DEF QuoteFits
<1> QED
  BY <1>1, <1>3, <1>8
     DEF ChainInv, IndexConstantInInterval, StepAtMostBuffer, Chained, Foreseen

\* Every step keeps ChainInv.
LEMMA ChainStep == ChainInv /\ [Next]_vars => ChainInv'
<1> SUFFICES ASSUME ChainInv, [Next]_vars PROVE ChainInv'
  OBVIOUS
<1>1. CASE UNCHANGED vars
  BY <1>1 DEF vars, ChainInv, TypeOK, IndexConstantInInterval, StepAtMostBuffer,
              Chained, Foreseen, QuoteFits
<1> QED
  BY <1>1, ChainConnect, ChainDisconnect, ChainQuery DEF Next

\* ChainInv always holds.
LEMMA ChainAlways == Spec => []ChainInv
  BY ChainInit, ChainStep, PTL DEF Spec

\* All blocks of an interval share one supply index, in every chain the node
\* can be led to by connecting and disconnecting blocks.
THEOREM IndexConstant == Spec => []IndexConstantInInterval
<1>1. ChainInv => IndexConstantInInterval
  BY DEF ChainInv
<1> QED
  BY <1>1, ChainAlways, PTL

\* The index never moves by more than the buffer of 3 between two consecutive
\* intervals.
THEOREM StepBounded == Spec => []StepAtMostBuffer
<1>1. ChainInv => StepAtMostBuffer
  BY DEF ChainInv
<1> QED
  BY <1>1, ChainAlways, PTL

\* The forecasts given to wallets and exchanges come true, through every
\* reorganisation that keeps the block before the interval they were taken in.
THEOREM ForecastsComeTrue == Spec => []ForecastHolds
<1>1. ChainInv => ForecastHolds
  <2> SUFFICES ASSUME ChainInv, quote # NoQuote, NEW h \in 0..tip
               PROVE  /\ Cycle(h) = quote.cycle + 1 => chain[h].nPegSupplyIndex = quote.next
                      /\ Cycle(h) = quote.cycle + 2 => chain[h].nPegSupplyIndex = quote.nextnext
    BY DEF ForecastHolds
  <2>1. /\ quote.cycle \in Nat
        /\ quote.start = quote.cycle * PegInterval
        /\ Foreseeable(quote.start)
        /\ quote.next = ForecastNext(chain, quote.start)
        /\ quote.nextnext = ForecastNextNext(chain, quote.start)
    BY DEF ChainInv, QuoteFits
  <2> QED
    BY <2>1 DEF ChainInv, Foreseen
<1> QED
  BY <1>1, ChainAlways, PTL

---------------------------------------------------------------------------
(* The sums of votes *)

\* What the sums of the block at height h of a chain c should be
CountedIn(c, h) ==
  {g \in 0..h : /\ Cycle(g) = Cycle(h)
                /\ \A k \in g..h : c[k].pos /\ k >= PegStartHeight}
VotesIn(c, h, ballot) ==
  SumOf([g \in 0..h |-> c[g].weight], {g \in CountedIn(c, h) : c[g].ballot = ballot})
SumsRight(c, h) ==
  /\ c[h].inflate = VotesIn(c, h, "inflate")
  /\ c[h].deflate = VotesIn(c, h, "deflate")
  /\ c[h].nochange = VotesIn(c, h, "nochange")

\* The property, block by block.
LEMMA SumsAreRight == SumsAreTheIntervalsOwn <=> \A h \in 0..tip : SumsRight(chain, h)
  BY DEF SumsAreTheIntervalsOwn, Counted, SumsRight, VotesIn, CountedIn

\* They depend on the blocks up to there only.
LEMMA SumsLocal ==
  ASSUME NEW h \in Nat, NEW c, NEW d, \A g \in 0..h : d[g] = c[g], SumsRight(c, h)
  PROVE  SumsRight(d, h)
<1>1. [g \in 0..h |-> d[g].weight] = [g \in 0..h |-> c[g].weight]
  OBVIOUS
<1>2. CountedIn(d, h) = CountedIn(c, h)
  <2>1. \A g \in 0..h : \A k \in g..h : k \in 0..h
    OBVIOUS
  <2> QED BY <2>1 DEF CountedIn
<1>3. \A ballot : VotesIn(d, h, ballot) = VotesIn(c, h, ballot)
  <2> SUFFICES ASSUME NEW ballot PROVE VotesIn(d, h, ballot) = VotesIn(c, h, ballot)
    OBVIOUS
  <2>1. {g \in CountedIn(d, h) : d[g].ballot = ballot} = {g \in CountedIn(c, h) : c[g].ballot = ballot}
    BY <1>2 DEF CountedIn
  <2> QED BY <1>1, <2>1 DEF VotesIn
<1>4. d[h] = c[h]
  OBVIOUS
<1> QED BY <1>3, <1>4 DEF SumsRight

\* The blocks counted one block further: none after a proof-of-work block, the
\* new one alone at the start of an interval, one more otherwise.
LEMMA CountedStep ==
  ASSUME NEW t \in Nat, NEW c \in [0..t -> BlockIndexes], NEW d \in [0..(t + 1) -> BlockIndexes],
         \A g \in 0..t : d[g] = c[g]
  PROVE  CountedIn(d, t + 1) =
           IF ~ (d[t + 1].pos /\ t + 1 >= PegStartHeight) THEN {}
           ELSE IF (t + 1) % PegInterval = 0 THEN {t + 1}
           ELSE CountedIn(c, t) \union {t + 1}
<1>1. ASSUME NEW g \in 0..(t + 1)
      PROVE  g \in CountedIn(d, t + 1) <=>
               /\ d[t + 1].pos /\ t + 1 >= PegStartHeight
               /\ g = t + 1 \/ ((t + 1) % PegInterval # 0 /\ g \in CountedIn(c, t))
  <2>1. t + 1 \in g..(t + 1)
    OBVIOUS
  <2>2. CASE g = t + 1
    <3>1. \A k \in g..(t + 1) : k = t + 1
      BY <2>2
    <3> QED BY <2>1, <2>2, <3>1 DEF CountedIn
  <2>3. CASE g # t + 1
    <3>1. g \in 0..t /\ g \in Nat
      BY <2>3
    <3>2. \A k : k \in g..(t + 1) <=> k = t + 1 \/ k \in g..t
      BY <3>1
    <3>3. \A k \in g..t : d[k] = c[k]
      BY <3>1
    <3>4. (\A k \in g..(t + 1) : d[k].pos /\ k >= PegStartHeight)
            <=> (d[t + 1].pos /\ t + 1 >= PegStartHeight /\ \A k \in g..t : c[k].pos /\ k >= PegStartHeight)
      BY <3>2, <3>3
    <3>5. CASE (t + 1) % PegInterval = 0
      <4>1. Cycle(t + 1) = Cycle(t) + 1 /\ Cycle(t) \in Nat
        BY <3>5, CycleSuccessor, CycleBounds
      <4>2. Cycle(g) <= Cycle(t)
        BY <3>1, g <= t, CycleMonotone
      <4>3. Cycle(g) # Cycle(t + 1)
        BY <3>1, <4>1, <4>2, CycleBounds
      <4> QED BY <2>3, <3>5, <4>3 DEF CountedIn
    <3>6. CASE (t + 1) % PegInterval # 0
      <4>1. Cycle(t + 1) = Cycle(t)
        BY <3>6, CycleSuccessor
      <4> QED BY <2>3, <3>1, <3>4, <3>6, <4>1 DEF CountedIn
    <3> QED BY <3>5, <3>6
  <2> QED BY <2>2, <2>3
<1>2. CountedIn(d, t + 1) \subseteq 0..(t + 1) /\ CountedIn(c, t) \subseteq 0..t
  BY DEF CountedIn
<1>3. t + 1 \in 0..(t + 1) /\ 0..t \subseteq 0..(t + 1)
  OBVIOUS
<1> DEFINE open == d[t + 1].pos /\ t + 1 >= PegStartHeight
           first == (t + 1) % PegInterval = 0
<1>4. CASE ~ open
  BY <1>1, <1>2, <1>4
<1>5. CASE open /\ first
  BY <1>1, <1>2, <1>3, <1>5
<1>6. CASE open /\ ~ first
  BY <1>1, <1>2, <1>3, <1>6
<1> QED BY <1>4, <1>5, <1>6

\* CalculateBlockPegVotes gives a block the right sums if its predecessor has them.
LEMMA SumsStep ==
  ASSUME NEW t \in Nat, NEW c \in [0..t -> BlockIndexes], NEW d \in [0..(t + 1) -> BlockIndexes],
         \A g \in 0..t : d[g] = c[g], SumsRight(c, t),
         NEW b, NEW index, d[t + 1] = CalculateBlockPegVotes(b, t + 1, index, c[t])
  PROVE  SumsRight(d, t + 1)
<1> DEFINE counted == b.pos /\ t + 1 >= PegStartHeight
           first == (t + 1) % PegInterval = 0
           before == IF first THEN {} ELSE CountedIn(c, t)
           carry(n) == IF first THEN 0 ELSE n
           weights == [g \in 0..(t + 1) |-> d[g].weight]
           old == [g \in 0..t |-> c[g].weight]
           with(S, ballot) == {g \in S : d[g].ballot = ballot}
<1>1. /\ d[t + 1].pos = b.pos /\ d[t + 1].ballot = b.ballot
      /\ d[t + 1].weight = IF b.ballot = "none" THEN 0 ELSE CalculatePegVotes(b.stake, index)
  BY DEF CalculateBlockPegVotes
<1>2. t + 1 \in 0..(t + 1) /\ d[t + 1] \in BlockIndexes /\ c[t] \in BlockIndexes
  OBVIOUS
<1>3. d[t + 1].weight \in Nat /\ c[t].inflate \in Nat /\ c[t].deflate \in Nat /\ c[t].nochange \in Nat
  BY <1>2 DEF BlockIndexes
<1>4. /\ before \subseteq 0..t /\ IsFiniteSet(0..t) /\ 0..t \subseteq 0..(t + 1) /\ t + 1 \notin before
      /\ IsFiniteSet(0..(t + 1))
  <2>1. CountedIn(c, t) \subseteq 0..t
    BY DEF CountedIn
  <2>2. IsFiniteSet(0..t) /\ IsFiniteSet(0..(t + 1))
    BY FS_Interval
  <2> QED BY <2>1, <2>2
<1>5. CountedIn(d, t + 1) = IF counted THEN before \union {t + 1} ELSE {}
  BY <1>1, CountedStep
<1>6. \A g \in 0..(t + 1) : weights[g] = d[g].weight /\ weights[g] \in Int
  BY DEF BlockIndexes
<1>7. \A g \in 0..t : old[g] = weights[g] /\ old[g] \in Int
  BY DEF BlockIndexes
<1>8. ASSUME NEW ballot \in {"inflate", "deflate", "nochange"}, NEW n \in Nat, n = VotesIn(c, t, ballot)
      PROVE  VotesIn(d, t + 1, ballot) =
               IF counted THEN carry(n) + (IF b.ballot = ballot THEN d[t + 1].weight ELSE 0) ELSE 0
  <2>1. VotesIn(d, t + 1, ballot) = SumOf(weights, with(CountedIn(d, t + 1), ballot))
    BY DEF VotesIn
  <2>2. CASE ~ counted
    <3>1. with(CountedIn(d, t + 1), ballot) = {}
      BY <1>5, <2>2
    <3> HIDE DEF weights, counted
    <3> QED BY <2>1, <2>2, <3>1, SumRecursion
  <2>3. CASE counted
    <3>1. with(CountedIn(d, t + 1), ballot) =
            IF b.ballot = ballot THEN with(before, ballot) \union {t + 1} ELSE with(before, ballot)
      <4>1. with(CountedIn(d, t + 1), ballot) = with(before, ballot) \union with({t + 1}, ballot)
        BY <1>5, <2>3
      <4>2. with({t + 1}, ballot) = IF b.ballot = ballot THEN {t + 1} ELSE {}
        BY <1>1
      <4> HIDE DEF with
      <4> QED BY <4>1, <4>2
    <3>2. SumOf(weights, with(before, ballot)) = carry(n)
      <4>1. CASE first
        <5>1. with(before, ballot) = {}
          BY <4>1
        <5> HIDE DEF weights
        <5> QED BY <4>1, <5>1, SumRecursion
      <4>2. CASE ~ first
        <5>1. with(before, ballot) = {g \in CountedIn(c, t) : c[g].ballot = ballot}
          BY <1>4, <4>2
        <5>2. n = SumOf(old, with(before, ballot))
          BY <1>8, <5>1 DEF VotesIn
        <5>3. with(before, ballot) \subseteq 0..t
          BY <1>4
        <5> HIDE DEF with, before, old, weights, first
        <5>4. IsFiniteSet(with(before, ballot))
          BY <1>4, <5>3, FS_Subset
        <5>5. SumOf(old, with(before, ballot)) = SumOf(weights, with(before, ballot))
          BY <1>4, <1>6, <1>7, <5>3, <5>4, SumEqual
        <5> QED BY <4>2, <5>2, <5>5
      <4> QED BY <4>1, <4>2
    <3>3. with(before, ballot) \subseteq 0..(t + 1) /\ t + 1 \notin with(before, ballot)
      BY <1>4
    <3> HIDE DEF with, before, weights
    <3>4. SumOf(weights, with(before, ballot) \union {t + 1})
            = weights[t + 1] + SumOf(weights, with(before, ballot))
      <4>1. PICK S : S = with(before, ballot) \union {t + 1}
        OBVIOUS
      <4>2. S \subseteq 0..(t + 1) /\ t + 1 \in S /\ S \ {t + 1} = with(before, ballot)
        BY <1>2, <3>3, <4>1
      <4>3. IsFiniteSet(S) /\ \A g \in S : weights[g] \in Int
        BY <1>4, <1>6, <4>2, FS_Subset
      <4>4. SumOf(weights, S) = weights[t + 1] + SumOf(weights, S \ {t + 1})
        BY <4>2, <4>3, SumRemove
      <4> QED BY <4>1, <4>2, <4>4
    <3>5. weights[t + 1] = d[t + 1].weight
      BY <1>2, <1>6
    <3> HIDE DEF counted
    <3>6. carry(n) \in Nat
      OBVIOUS
    <3> HIDE DEF carry
    <3> QED BY <1>3, <2>1, <2>3, <3>1, <3>2, <3>4, <3>5, <3>6
  <2> QED BY <2>2, <2>3
<1>9. /\ d[t + 1].inflate = VotesIn(d, t + 1, "inflate")
      /\ d[t + 1].deflate = VotesIn(d, t + 1, "deflate")
      /\ d[t + 1].nochange = VotesIn(d, t + 1, "nochange")
  <2>1. /\ c[t].inflate = VotesIn(c, t, "inflate")
        /\ c[t].deflate = VotesIn(c, t, "deflate")
        /\ c[t].nochange = VotesIn(c, t, "nochange")
    BY DEF SumsRight
  <2>2. PICK w : w = CalculatePegVotes(b.stake, index)
    OBVIOUS
  <2>3. /\ d[t + 1].inflate = IF counted THEN carry(c[t].inflate) + (IF b.ballot = "inflate" THEN w ELSE 0) ELSE 0
        /\ d[t + 1].deflate = IF counted THEN carry(c[t].deflate) + (IF b.ballot = "deflate" THEN w ELSE 0) ELSE 0
        /\ d[t + 1].nochange = IF counted THEN carry(c[t].nochange) + (IF b.ballot = "nochange" THEN w ELSE 0) ELSE 0
    BY <2>2 DEF CalculateBlockPegVotes
  <2>4. b.ballot # "none" => d[t + 1].weight = w
    BY <1>1, <2>2
  <2> HIDE DEF counted, carry
  <2> QED BY <1>3, <1>8, <2>1, <2>3, <2>4
<1> QED BY <1>9 DEF SumsRight

\* The sums of the first block are zero.
LEMMA SumsInit == Init => SumsAreTheIntervalsOwn
<1> SUFFICES ASSUME Init, NEW h \in 0..tip PROVE SumsRight(chain, h)
  BY SumsAreRight
<1>1. chain[h] = Genesis /\ h \in h..h
  BY IntervalAssumption DEF Init
<1>2. CountedIn(chain, h) = {}
  <2>1. \A g \in 0..h : h \in g..h
    BY IntervalAssumption DEF Init
  <2> QED BY <1>1, <2>1 DEF CountedIn, Genesis
<1>3. \A ballot : VotesIn(chain, h, ballot) = 0
  <2> SUFFICES ASSUME NEW ballot PROVE VotesIn(chain, h, ballot) = 0
    OBVIOUS
  <2>1. {g \in CountedIn(chain, h) : chain[g].ballot = ballot} = {}
    BY <1>2
  <2>2. PICK f : f = [g \in 0..h |-> chain[g].weight]
    OBVIOUS
  <2> QED BY <2>1, <2>2, SumRecursion DEF VotesIn
<1> QED BY <1>1, <1>3 DEF SumsRight, Genesis

\* Connecting a block gives it the right sums; disconnecting leaves the others'.
LEMMA SumsNext == TypeOK /\ TypeOK' /\ SumsAreTheIntervalsOwn /\ [Next]_vars => SumsAreTheIntervalsOwn'
<1> SUFFICES ASSUME TypeOK, TypeOK', \A h \in 0..tip : SumsRight(chain, h), [Next]_vars
             PROVE  SumsAreTheIntervalsOwn'
  BY SumsAreRight
<1>0. tip \in Nat /\ chain \in [0..tip -> BlockIndexes] /\ tip' \in Nat /\ chain' \in [0..tip' -> BlockIndexes]
  BY DEF TypeOK
<1> SUFFICES \A h \in 0..tip' : SumsRight(chain', h)
  BY DEF SumsAreTheIntervalsOwn, Counted, SumsRight, VotesIn, CountedIn
<1>1. ASSUME NEW b \in Blocks, ConnectBlock(b), NEW h \in 0..tip' PROVE SumsRight(chain', h)
  <2>1. PICK index : index = GetNextBlockPegSupplyIndex(chain, tip)
    OBVIOUS
  <2>2. PICK pindex : pindex = CalculateBlockPegVotes(b, tip + 1, index, chain[tip])
    OBVIOUS
  <2>3. tip' = tip + 1 /\ chain' = [g \in 0..(tip + 1) |-> IF g = tip + 1 THEN pindex ELSE chain[g]]
    BY <1>1, <2>1, <2>2 DEF ConnectBlock
  <2>4. chain'[tip + 1] = pindex /\ \A g \in 0..tip : chain'[g] = chain[g]
    BY <1>0, <2>3
  <2>5. CASE h = tip + 1
    <3>1. tip \in 0..tip
      BY <1>0
    <3>2. SumsRight(chain, tip)
      BY <3>1
    <3>3. SumsRight(chain', tip + 1)
      BY <1>0, <2>2, <2>3, <2>4, <3>2, SumsStep
    <3> QED BY <2>5, <3>3
  <2>6. CASE h \in 0..tip
    <3>1. h \in Nat /\ 0..h \subseteq 0..tip
      BY <1>0, <2>6
    <3> QED BY <2>4, <2>6, <3>1, SumsLocal
  <2> QED BY <1>0, <1>1, <2>3, <2>5, <2>6
<1>2. ASSUME DisconnectTip, NEW h \in 0..tip' PROVE SumsRight(chain', h)
  <2>1. tip' = tip - 1 /\ chain' = [g \in 0..(tip - 1) |-> chain[g]]
    BY <1>2 DEF DisconnectTip
  <2>2. h \in Nat /\ h \in 0..tip /\ \A g \in 0..h : chain'[g] = chain[g]
    BY <1>0, <1>2, <2>1
  <2> QED BY <2>2, SumsLocal
<1>3. CASE WalletQuery \/ UNCHANGED vars
  BY <1>3 DEF WalletQuery, vars
<1> QED BY <1>1, <1>2, <1>3 DEF Next

\* The sums a block index keeps are those of the ballots since the start of its
\* interval, of the peg, or since the last proof-of-work block: through every
\* reorganisation no ballot is counted twice, lost or carried over.
THEOREM SumsAreOwn == Spec => []SumsAreTheIntervalsOwn
<1>1. TypeOK /\ SumsAreTheIntervalsOwn /\ [Next]_vars => (TypeOK /\ SumsAreTheIntervalsOwn)'
  BY TypeStep, SumsNext
<1>2. Init => TypeOK /\ SumsAreTheIntervalsOwn
  BY TypeInit, SumsInit
<1> QED BY <1>1, <1>2, PTL DEF Spec
=============================================================================
