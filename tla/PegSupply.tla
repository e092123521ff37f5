----------------------------- MODULE PegSupply -----------------------------
(***************************************************************************)
(* The peg supply index: how the stakers' votes, written in the blocks,    *)
(* move the index that splits every coin into reserve and liquid parts     *)
(* (src/peg/peg.cpp), and how wallets and exchanges read the index of the  *)
(* next two intervals ahead of time (src/wallet/wallet.cpp).               *)
(*                                                                         *)
(* The best chain is a function from heights to the peg fields of          *)
(* CBlockIndex.  A reorganisation is a run of DisconnectTip steps followed *)
(* by ConnectBlock steps: the peg fields of a block are computed again     *)
(* from its predecessor every time it is connected.                        *)
(***************************************************************************)
EXTENDS Sums

CONSTANTS
  PegInterval,        \* Params().PegInterval(): blocks per voting interval
  PegStartHeight,     \* nPegStartHeight: first height with the peg active
  MaxSupplyIndex,     \* nPegMaxSupplyIndex
  WeightStep,         \* index steps per unit of vote multiplier (120 in the code)
  Stakes,             \* the (reserve, liquid) parts a staked coin can have
  MaxHeight,          \* bound: heights explored
  MaxMarked           \* bound: blocks of a chain that vote or are proof of work

\* The walks back to the votes of two and three intervals ago run into the
\* null predecessor of the genesis block unless the peg starts late enough.
ASSUME IntervalAssumption ==
  /\ PegInterval \in Nat \ {0}
  /\ PegStartHeight \in Nat
  /\ PegStartHeight > 3 * PegInterval

ASSUME IndexAssumption ==
  /\ MaxSupplyIndex \in Nat \ {0}
  /\ WeightStep \in Nat \ {0}

ASSUME StakesAssumption == Stakes \subseteq [reserve : Nat, liquid : Nat]

ASSUME BoundsAssumption == MaxHeight \in Nat /\ MaxMarked \in Nat

VARIABLES
  tip,     \* pindexBest->nHeight
  chain,   \* height -> peg fields of the block index (and its ballot)
  quote    \* history: the last forecast CWallet took of the next two intervals

vars == <<tip, chain, quote>>

---------------------------------------------------------------------------
(* Blocks *)

\* What a coinstake says: the first output that pays a vote address counts.
Ballots == {"inflate", "deflate", "nochange", "none"}

\* What a block brings: proof of work, or a coinstake of a coin with a ballot.
PowBlocks == {[pos |-> FALSE, ballot |-> "none", stake |-> [reserve |-> 0, liquid |-> 0]]}
PosBlocks == [pos : {TRUE}, ballot : Ballots, stake : Stakes]
Blocks == PowBlocks \union PosBlocks

\* The peg fields of CBlockIndex; weight and pos are the block's own data,
\* kept to state the properties.
BlockIndexes == [nPegSupplyIndex : 0..MaxSupplyIndex,
                 inflate : Nat, deflate : Nat, nochange : Nat,
                 pos : BOOLEAN, ballot : Ballots, weight : Nat]

Cycle(h) == h \div PegInterval
CycleStart(h) == Cycle(h) * PegInterval

---------------------------------------------------------------------------
(* The vote rules *)

\* CalculatePegVotes: liquid coins weigh less as the index grows; the number
\* of votes grows with the liquid to reserve ratio and with the index.
CalculatePegVotes(stake, index) ==
  LET liquid == stake.liquid - (stake.liquid * index) \div MaxSupplyIndex
      multiplier == index \div WeightStep + 1
  IN  IF liquid > stake.reserve * 4 THEN 4 * multiplier
      ELSE IF liquid > stake.reserve * 3 THEN 3 * multiplier
      ELSE IF liquid > stake.reserve * 2 THEN 2 * multiplier
      ELSE 1

\* Mutant: the margins count one more step each.
EagerSteps(winner, rival1, rival2) ==
  1 + (IF winner > 2 * rival1 /\ winner > 2 * rival2 THEN 2 ELSE 0)
    + (IF winner > 3 * rival1 /\ winner > 3 * rival2 THEN 1 ELSE 0)

\* How far a winning vote moves the index: once, and once more for each of
\* the 2x and 3x margins over the two rival votes of the interval before.
Steps(winner, rival1, rival2) ==
  1 + (IF winner > 2 * rival1 /\ winner > 2 * rival2 THEN 1 ELSE 0)
    + (IF winner > 3 * rival1 /\ winner > 3 * rival2 THEN 1 ELSE 0)

\* Mutant: the clamp at the upper end is forgotten.
UnclampedComputeNextPegSupplyIndex(base, use, prev) ==
  LET up == IF use.deflate > use.inflate /\ use.deflate > use.nochange
            THEN Steps(use.deflate, prev.inflate, prev.nochange) ELSE 0
      down == IF use.inflate > use.deflate /\ use.inflate > use.nochange
              THEN Steps(use.inflate, prev.deflate, prev.nochange) ELSE 0
      next == base + up - down
  IN  IF next < 0 THEN 0 ELSE next

\* ComputeNextPegSupplyIndex
ComputeNextPegSupplyIndex(base, use, prev) ==
  LET up == IF use.deflate > use.inflate /\ use.deflate > use.nochange
            THEN Steps(use.deflate, prev.inflate, prev.nochange) ELSE 0
      down == IF use.inflate > use.deflate /\ use.inflate > use.nochange
              THEN Steps(use.inflate, prev.deflate, prev.nochange) ELSE 0
      next == base + up - down
  IN  IF next >= MaxSupplyIndex THEN MaxSupplyIndex
      ELSE IF next < 0 THEN 0
      ELSE next

\* Mutant: the index moves one block before the interval ends.
EarlyGetNextBlockPegSupplyIndex(c, h) ==
  LET nNextHeight == h + 1
  IN  IF nNextHeight < PegStartHeight THEN 0
      ELSE IF (nNextHeight + 1) % PegInterval # 0 THEN c[h].nPegSupplyIndex
      ELSE ComputeNextPegSupplyIndex(c[h].nPegSupplyIndex,
                                     c[nNextHeight - 2 * PegInterval - 1],
                                     c[nNextHeight - 3 * PegInterval - 1])

\* GetNextBlockPegSupplyIndex of the block at height h of chain c
GetNextBlockPegSupplyIndex(c, h) ==
  LET nNextHeight == h + 1
  IN  IF nNextHeight < PegStartHeight THEN 0
      ELSE IF nNextHeight % PegInterval # 0 THEN c[h].nPegSupplyIndex
      ELSE ComputeNextPegSupplyIndex(c[h].nPegSupplyIndex,
                                     c[nNextHeight - 2 * PegInterval - 1],
                                     c[nNextHeight - 3 * PegInterval - 1])

\* GetNextIntervalPegSupplyIndex
GetNextIntervalPegSupplyIndex(c, h) ==
  IF h < PegStartHeight THEN 0
  ELSE ComputeNextPegSupplyIndex(c[h].nPegSupplyIndex,
                                 c[CycleStart(h) - PegInterval - 1],
                                 c[CycleStart(h) - 2 * PegInterval - 1])

\* Mutant: the forecast two intervals ahead is based on the current index.
ShortGetNextNextIntervalPegSupplyIndex(c, h) ==
  IF h < PegStartHeight THEN 0
  ELSE ComputeNextPegSupplyIndex(c[h].nPegSupplyIndex,
                                 c[CycleStart(h) - 1],
                                 c[CycleStart(h) - PegInterval - 1])

\* GetNextNextIntervalPegSupplyIndex
GetNextNextIntervalPegSupplyIndex(c, h) ==
  IF h < PegStartHeight THEN 0
  ELSE ComputeNextPegSupplyIndex(GetNextIntervalPegSupplyIndex(c, h),
                                 c[CycleStart(h) - 1],
                                 c[CycleStart(h) - PegInterval - 1])

\* Mutant: the sums are not reset at the first block of an interval.
UnresetCalculateBlockPegVotes(b, h, index, prev) ==
  LET weight == CalculatePegVotes(b.stake, index)
      counted == b.pos /\ h >= PegStartHeight
      sum(n, ballot) == IF ~counted THEN 0
                        ELSE n + (IF b.ballot = ballot THEN weight ELSE 0)
  IN  [nPegSupplyIndex |-> index,
       inflate  |-> sum(prev.inflate, "inflate"),
       deflate  |-> sum(prev.deflate, "deflate"),
       nochange |-> sum(prev.nochange, "nochange"),
       pos |-> b.pos, ballot |-> b.ballot,
       weight |-> IF b.ballot = "none" THEN 0 ELSE weight]

\* CalculateBlockPegVotes: the running sums of the interval at block h, given
\* the index fields of its predecessor.
CalculateBlockPegVotes(b, h, index, prev) ==
  LET weight == CalculatePegVotes(b.stake, index)
      counted == b.pos /\ h >= PegStartHeight
      carry(n) == IF h % PegInterval = 0 THEN 0 ELSE n
      sum(n, ballot) == IF ~counted THEN 0
                        ELSE carry(n) + (IF b.ballot = ballot THEN weight ELSE 0)
  IN  [nPegSupplyIndex |-> index,
       inflate  |-> sum(prev.inflate, "inflate"),
       deflate  |-> sum(prev.deflate, "deflate"),
       nochange |-> sum(prev.nochange, "nochange"),
       pos |-> b.pos, ballot |-> b.ballot,
       weight |-> IF b.ballot = "none" THEN 0 ELSE weight]

---------------------------------------------------------------------------
(* Behaviour *)

NoQuote == [cycle |-> -1, start |-> -1, next |-> 0, nextnext |-> 0]

\* The genesis block has index 0 and no votes (the constructor of CBlockIndex).
Genesis == [nPegSupplyIndex |-> 0, inflate |-> 0, deflate |-> 0, nochange |-> 0,
            pos |-> FALSE, ballot |-> "none", weight |-> 0]

\* Blocks below the peg start carry no votes and index 0, whatever they hold:
\* behaviours start with the best chain one block below it.
Init ==
  /\ tip = PegStartHeight - 1
  /\ chain = [h \in 0..tip |-> Genesis]
  /\ quote = NoQuote

Marked(b) == b.ballot # "none" \/ ~b.pos
MarkedBlocks ==
  Cardinality({h \in PegStartHeight..tip : Marked(chain[h])})

\* The peg part of CBlock::ConnectBlock: the index first, then the votes.
ConnectBlock(b) ==
  /\ tip < MaxHeight
  /\ Marked(b) => MarkedBlocks < MaxMarked
  /\ LET index == GetNextBlockPegSupplyIndex(chain, tip)
         pindex == CalculateBlockPegVotes(b, tip + 1, index, chain[tip])
     IN chain' = [h \in 0..(tip + 1) |-> IF h = tip + 1 THEN pindex ELSE chain[h]]
  /\ tip' = tip + 1
  /\ UNCHANGED quote

\* The peg part of CBlock::DisconnectBlock.  A quote is about the chain that
\* holds the last block before its interval: it is void once that block goes.
DisconnectTip ==
  /\ tip >= PegStartHeight
  /\ tip' = tip - 1
  /\ chain' = [h \in 0..(tip - 1) |-> chain[h]]
  /\ quote' = IF tip < quote.start THEN NoQuote ELSE quote

\* CWallet::GetPegCycle and its siblings cache the forecast of the best block.
WalletQuery ==
  /\ tip >= PegStartHeight
  /\ quote' = [cycle |-> Cycle(tip), start |-> CycleStart(tip),
               next |-> GetNextIntervalPegSupplyIndex(chain, tip),
               nextnext |-> GetNextNextIntervalPegSupplyIndex(chain, tip)]
  /\ UNCHANGED <<tip, chain>>

Next == \/ \E b \in Blocks : ConnectBlock(b)
        \/ DisconnectTip
        \/ WalletQuery

Spec == Init /\ [][Next]_vars

---------------------------------------------------------------------------
(* Properties *)

Quotes == [cycle : Nat \union {-1}, start : Nat \union {-1},
           next : 0..MaxSupplyIndex, nextnext : 0..MaxSupplyIndex]

\* Type correctness: in particular the clamp of ComputeNextPegSupplyIndex keeps
\* every block's index between 0 and nPegMaxSupplyIndex.
TypeOK ==
  /\ tip \in Nat
  /\ tip >= PegStartHeight - 1
  /\ chain \in [0..tip -> BlockIndexes]
  /\ quote \in Quotes

\* All blocks of one interval have the same supply index, whatever is voted,
\* mined or reorganised inside it (GetNextBlockPegSupplyIndex moves the index
\* only at the first block of an interval).
IndexConstantInInterval ==
  \A g, h \in 0..tip : Cycle(g) = Cycle(h)
                         => chain[g].nPegSupplyIndex = chain[h].nPegSupplyIndex

\* From one interval to the next the index moves by at most 3: the nBuffer = 3
\* that the exchange calls add to the index covers the next interval.
StepAtMostBuffer ==
  \A g, h \in 0..tip : Cycle(h) = Cycle(g) + 1 =>
    /\ chain[h].nPegSupplyIndex - chain[g].nPegSupplyIndex <= 3
    /\ chain[g].nPegSupplyIndex - chain[h].nPegSupplyIndex <= 3

\* A forecast taken from the best block keeps being what the chain then does,
\* through every reorganisation that keeps the block before its interval: the
\* blocks of the next interval have index quote.next, those of the interval
\* after it quote.nextnext (GetNextIntervalPegSupplyIndex and
\* GetNextNextIntervalPegSupplyIndex against GetNextBlockPegSupplyIndex).
ForecastHolds ==
  quote # NoQuote =>
    \A h \in 0..tip :
      /\ Cycle(h) = quote.cycle + 1 => chain[h].nPegSupplyIndex = quote.next
      /\ Cycle(h) = quote.cycle + 2 => chain[h].nPegSupplyIndex = quote.nextnext

\* The blocks whose ballots the sums at height h hold: those since the last
\* start of an interval, of the peg, or since the last proof-of-work block.
Counted(h) ==
  {g \in 0..h : /\ Cycle(g) = Cycle(h)
                /\ \A k \in g..h : chain[k].pos /\ k >= PegStartHeight}

\* The running sums kept in the block index never count a ballot twice, lose
\* one, or carry one over from another interval: each is the sum of the weights
\* of the counted blocks with that ballot (CalculateBlockPegVotes keeps it
\* incrementally, from the predecessor's sums).
SumsAreTheIntervalsOwn ==
  \A h \in 0..tip :
    LET votes(ballot) ==
          SumOf([g \in 0..h |-> chain[g].weight],
                {g \in Counted(h) : chain[g].ballot = ballot})
    IN  /\ chain[h].inflate = votes("inflate")
        /\ chain[h].deflate = votes("deflate")
        /\ chain[h].nochange = votes("nochange")
=============================================================================
