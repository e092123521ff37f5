# A TLA+ model of BitBay

BitBay is a proof-of-stake currency whose supply is adjusted by votes. Every
coin is an array of fractions; a *supply index* that all nodes agree on splits
the array into a reserve part and a liquid part. This directory holds TLA+
modules for the parts of the program where that agreement can go wrong, the TLC
configurations that check them on small instances, and TLAPS proofs of the
results that hold for every instance. Paths below are relative to the
repository's root.

## 1. The system

| Component | State it keeps | Operations | Hard because |
|---|---|---|---|
| Peg supply index (`src/peg/peg.cpp`) | per block: index, three running sums of votes | compute the next index, count a block's vote, forecast two intervals | incremental sums, walks back over intervals, clamps, reorganisations across interval ends |
| Block acceptance and best chain (`src/main.cpp`, `src/kernel.cpp`) | block index, best block, next pointers, main-chain marks, orphans, stakes seen | ProcessBlock, AcceptBlock, AddToBlockIndex, SetBestChain, Reorganize, ConnectBlock, DisconnectBlock | blocks in any order, half-done switches of chain, two databases of which only one is transactional |
| Transaction database and start-up (`src/txdb-leveldb.cpp`) | block index, transaction index with spent pointers, best block | batch transactions, LoadBlockIndex | crash between any two steps |
| Peg database (`src/peg/pegdb-leveldb.cpp`) | fractions of outputs, consensus tables | write, erase, prune, insist on finding | written outside the transaction |
| Fractions and peg levels (`src/peg/pegfractions.cpp`, `peglevel.cpp`, `pegdata.cpp`) | values | sums, parts, ratio parts, shifted levels | integer rounding |
| Exchange operations (`src/peg/pegopsp.cpp`, `pegops.cpp`, `src/exchange/rpcexchange.cpp`) | each user's balance, the pool, the level, held by the caller | getpeglevel, updatepegbalances, moveliquid, movereserve, movecoins; withdrawals | one pool shared by calls in any order; who is up to date |
| Fractions of transactions, stakes, mints (`src/peg/pegstd.cpp`, `peg.cpp` 387-886) | - | fractions of the outputs from those of the inputs | conservation under rounding |
| Bridge and consensus states (`src/peg/peg_bridge.cpp`) | bridges, Merkle roots, proposals, per interval | votes of trusted stakers | state copied from interval to interval, undone by reorganisations |
| Memory pool (`src/txmempool.cpp`) | unconfirmed transactions and their fractions | accept, remove, review on peg change | checked against a chain that moves |
| Wallet, network, script, RPC, GUI | - | - | see section 7 |

How they interact. A peer's message thread calls `ProcessBlock` under
`cs_main`. It stores an orphan or calls `AcceptBlock`, which writes the block,
enters it in the index (a transaction of its own) and, if its chain has more
trust, calls `SetBestChain`. That opens a transaction on the transaction
database, disconnects and connects blocks, commits, and only then changes the
memory. `ConnectBlock` computes the peg index and votes of the block from its
predecessor's, reads and writes fractions in the peg database, and prunes old
ones. Afterwards `ProcessBlock` takes up the orphans that waited for the block.
Wallets and exchanges read the index, and forecasts of it, from the best block;
an exchange passes them to `getpeglevel` and hands the resulting level and pool
from call to call. At each end of an interval `ConnectBlock` counts the votes of
stakers on bridges and merkles and writes what they decide to the peg database,
before it looks at the block's transactions. `SetBestChain` takes transactions
back to the memory pool and deletes others from it; at a change of the index it
has the pool reviewed. Nodes, miners and exchanges all compute the fractions of a
transaction with `CalculateStandardFractions`.

What makes each part correct:

* the index is the same for all blocks of an interval, moves by at most the
  buffer that exchanges allow for, and is what the forecasts said;
* the node is on the heaviest chain it knows, its databases hold exactly that
  chain at every instant a crash could expose, and every output that can be
  spent has its fractions;
* an exchange can bring every user up to date, in any order, and all users
  together own what the exchange owes, fraction by fraction; through withdrawals
  its coins are what its books, shift and kept fees say;
* the fractions of a transaction's outputs and fee are exactly those of its
  inputs, reserve stays with its address, cold and staked coins go home;
* what stakers decided is what the best chain's own blocks decide, whatever was
  connected before;
* the memory pool holds nothing twice and nothing the chain has, and what it
  offers a miner connects.

`PROJECT.json` lists, under `hazards`, the places in the code where one of these
could fail without a unit test noticing, with the property that watches it. Some
exposures no property watches are known besides: the wallet's cached forecast is
read without `cs_main` (`wallet.cpp` 721); the RPC `movecoins` stamps balances of
an earlier cycle as current (`rpcexchange.cpp` 258) and `removecoins` does not
check its result (405); a user skipped in one cycle can not be updated in the next
(`pegopsp.cpp` 96); orphan transactions wait for a parent that arrives as a `tx`
message, not in a block or from the wallet (`main.cpp` 4410); the review of the
pool knows no time-lock passes (`txmempool.cpp` 184); a cold input beyond the
outputs is not held to the rule for cold coins (`pegstd.cpp` 106).

## 2. Modules

| Module | Models |
|---|---|
| `PegSupply` | the supply index, the votes, the forecasts |
| `PegSupply_proofs` | its theorems |
| `BlockChain` | acceptance of blocks, switching of the best chain, both databases, crashes |
| `Ledger` | what the transaction database promises (abstract) |
| `BlockChain_proofs` | theorems on `BlockChain`: the index, the committed database and that it implements `Ledger`, the memory beside the disk |
| `Sums`, `Sums_proofs` | sums over finite sets, and their laws |
| `PegFractions` | fractions and peg levels as values and operators |
| `PegExchange` | the exchange's calls that move balances, on `PegFractions` |
| `PegFractions_proofs`, `PegExchange_proofs` | lemmas on fractions and levels; theorems on `PegExchange` |
| `TxFractions` | the fractions of a transaction's outputs, input by input and output by output, and of a coinstake |
| `TxFractions_proofs` | its theorems |
| `PegWithdraw` | the exchange's withdrawals; composes `TxFractions` |
| `PegWithdraw_proofs` | its theorems |
| `ConsensusStates` | votes on bridges, merkles and passes, bridge pools; composes `BlockChain` |
| `MemPool` | the memory pool, orphan transactions, the miner's template |
| `MemPool_proofs` | its theorems |
| `MC...` | instances for TLC |

Definitions carry the names of the functions they model; `PROJECT.json` gives
the lines of each. Definitions introduced by a comment "Mutant" are faulty
variants of the one below them. Nothing uses them; replacing the original by one
must break the property that watches it.

### PegSupply

`chain` maps heights to the peg fields of `CBlockIndex`, `tip` is the height of
the best block. `ConnectBlock` is the peg part of `CBlock::ConnectBlock`
(`CalculateBlockPegIndex`, then `CalculateBlockPegVotes`); `DisconnectTip` takes
the tip off; a reorganisation is a run of the one followed by a run of the
other. `WalletQuery` is the refresh of the cached forecast in `CWallet`. `quote`
is that cache, together with the interval it is about; a quote is given up when
the chain loses the last block before that interval, because then it was about
another chain. A proof-of-work block resets the sums, as the code does.

Amounts in a coinstake are its reserve and liquid parts at the current index, a
constant set `Stakes`; the votes they weigh are computed as in
`CalculatePegVotes`. The overflow branch of that function gives the exact result
in 128 bits and is therefore the same formula.

### BlockChain

Blocks are the nodes of a constant tree (`Prev`, `Chain`, `nHeight`,
`nChainTrust`). Of a block's transactions the model keeps the output its
coinstake spends (`Prevout`), the time that makes up its proof of stake, and the
outputs it creates. `Invalid` are blocks that pass `CheckBlock` and fail in
`ConnectBlock` for what they contain (scripts, fees, fractions, rewards).

Memory: `mapBlockIndex`, `setStakeSeen`, `pindexBest` (with `hashBestChain`,
`nBestHeight` and `nBestChainTrust`, which the code sets together), `pNext`,
`fMainChainNoReorg`, `mapOrphanBlocks`, `setStakeSeenOrphan`. Disk: `txdb` and
`fractions`. `pc`, `vWorkQueue` and `txn` are where a call of `ProcessBlock` is:
no second call starts meanwhile (`cs_main`), but the process may die.

| Action | Code |
|---|---|
| `ProcessBlock(b)` | `ProcessBlock` to the end of `AddToBlockIndex`, or to the start of the switch in `SetBestChain` |
| `StoreOrphan(b)` | the orphan branch, with `PruneOrphanBlocks` |
| `ProcessOrphan(o)`, `NextInQueue` | the work queue loop |
| `DisconnectStep(b)`, `ConnectStep(b)` | one block in `Reorganize` or `SetBestChainInner`: the open transaction changes, the peg database changes at once |
| `Commit` | `TxnCommit` and the change of memory; goes on to the next postponed block |
| `Abort` | `TxnAbort` in the first transaction |
| `PostponedFails` | the `break` of the loop over postponed blocks |
| `Restart` | a crash at any point, then `LoadBlockIndex` |

`Spec` has all of these. `CleanSpec` leaves `PostponedFails` out: what that
action does is a finding of its own (section 4), and after it nothing about the
best block can be relied on. The runs that pass, and the theorems on the
transaction index and the ledger, are about `CleanSpec`; `TypeCorrect` and
`IndexClosed` are about `Spec`.

`Ledger` is the promise: `ledger` is always the whole chain of `best`, and
`best` changes only to a block with more trust. `ImplementsLedger` maps `best`
to `txdb.best` and `ledger` to `txdb.tx`, that is, what a reader of the disk
finds, in mid-switch and after a crash as well.

### PegFractions and PegExchange

Fractions are functions from `0..PegSize-1` to integers. `RatioPart` gives every
fraction its rounded-down share and makes up for the rounding at the lowest
fractions that can give more; the loop in the code wraps around, but fewer units
are missing than there are fractions that were rounded, so one round suffices.
`CPegLevel` shifts the level where the exchange's coins have less liquid than
its books.

`PegExchange` has an action per call. A call that would return an error is not
enabled; that it is enabled where it should be is a property (`UpdateSucceeds`,
`TradesSucceed`). In `updatepegbalances` the branch that takes missing liquid
from the held-back last fraction (`nLiquidTodo <= nHoldLastPart`) is modelled,
although it is never taken while the pool has enough liquid: then what is free
in the pool covers what is left to do.

`CarefulSpec` is an exchange that updates everybody before it asks for the next
level and lets only updated users trade.

### TxFractions and PegWithdraw

`CalculateStandardFractions` is one function with two loops; `TxFractions` makes
a step of each turn, so that what it keeps meanwhile can be stated (`poolReserves`
and `poolLiquidity` by address, `poolFrozen` by output, the common liquidity, the
fee of cold coins). An input is plain (`TakeInput`), cold (`TakeColdInput`), or
stands opposite a notary that freezes outputs, which are filled at once
(`FreezeOne`) or with the outputs (`FreezeShared`). An output is filled from the
reserve of its address and then from the common liquidity (`PlainOutput`), is
already set aside (`FrozenOutput`), or shares a freeze (`SharedFrozenOutput`,
`SharedVoluntaryOutput`, `SharedEmptyOutput`). `RefuseInput`, `Refuse` and
`Finish` are the returns with a cause. `CalculateStakingFractions` is the second
version of the rule for coinstakes, in one step: it has one input. Addresses are
numbers in the order of the maps; a lock time is whether it is over.

`PegWithdraw` runs the same steps inside a call of the exchange:
`PrepareWithdraw` checks balance and inputs and builds the transaction,
`AddMaintenance` gives the rest of the fee back and starts the second
calculation, `Account` does the bookkeeping and `Fail` is an error, which changes
nothing. `coins` are the outputs the exchange owns, `known` those it was told of,
`notaries` what notary outputs cost. The transaction is taken to be confirmed
before the next call, so that its change can be used. A behaviour is either a
session of the exchange or a single transaction of a wallet. The assumptions on
the constants are the code's: the coins lie at addresses of the exchange, of which
the user's is none; a call uses no more than `MaxInputs` coins (30 for liquid, 20
for reserve), for which the fee the user pays is enough.

`WithdrawalsSucceed` names two refusals that are left once the checks on balance
and inputs have passed. The inputs may not be able to pay for the notaries besides.
And the exchange's notary, which is worth one unit, draws on the reserve of whatever
address comes first; an output behind it, which gives the rest of the fee back to
that address, may then miss this unit.

### ConsensusStates

Extends `BlockChain` by the tables of the peg database that `ConnectBlock` writes
for votes: the states decided per cycle block, the proposals voted on, the votes
of each block, where a merkle was taken, and the bridge pools by height.
`Connect(b)` is `ConnectStep(b)` of `BlockChain` together with
`ConnectConsensusStates`, `FetchBridgePoolsFractions`, `ConnectBridgeCycleBurns`,
the mints and `CalculateBlockBridgeVotes`; `Fail(b)` is a block that is refused
after the states were written, in the first transaction of a switch or in a
postponed one. Walks down use the block's own chain (`Prev()`), walks up use
`pNext`, as the code does, and `ReadMerkleIn` asks `IsInMainChain`: both are the
memory's view, which lags behind during a reorganisation. A null `Next()` stops
the process (`Dies`): the block is then neither connected nor refused. Pools are
amounts, not fractions. Blocks arrive in order.

### MemPool

Here blocks are a constant tree of blocks that connect, with their transactions
and indexes; `db` is the chain the database holds, `pindexBest` the one in
memory. The loops of the handlers are steps, because each turn reads what the one
before wrote: the orphans retried after a transaction (`TxMessage`, `TryOrphan`,
`NextInQueue`, `EraseOrphans`), the transactions taken back and deleted by
`Reorganize` (`ResurrectOne`, `DeleteOne`; nothing is taken back of the blocks up to
`LastCheckpoint`, `main.cpp` 2821-2822), the postponed blocks
(`SetBestChainInner`), and the depth-first `reviewOnPegChange` (`ReviewRoot`,
`ReviewDependent`, `RemoveCollected`). The fractions of a transaction are reduced
to their history: the index at which it and each of its origins was computed.
`Refused` are histories the calculation rejects. `drifted` remembers that the
pool was not reviewed since the index may have changed (a reorganisation, or the
initial download): the code accepts that, and `FractionsCurrent` and
`TemplateConnects` are about the other times. Below `LastCheckpoint`
`IsInitialBlockDownload` is always true, above it depends on the clock and may be
either.

## 3. Runs

| Run | Instance | Shows |
|---|---|---|
| `peg_supply` | intervals of 2, peg from height 7, heights to 14, index 0..5, three marked blocks | `TypeOK`, `IndexConstantInInterval`, `StepAtMostBuffer`, `ForecastHolds`, `SumsAreTheIntervalsOwn` |
| `block_chain` | tree `Fork`, no faults | `FractionsKept`, `HeaviestWins`, `OrphansWait`, `MainChainIsBest` |
| `block_chain_faults` | tree `Uneven`, an invalid block, two crashes | `TypeOK`, `IndexIsClosed`, `TxIndexIsBestChain`, `SpentIsBestChain`, `MemoryFollowsDisk`, `ImplementsLedger` |
| `block_chain_live` | tree `Twins`, a trusted staker on the lighter branch, fairness, two crashes | `Converges`, `TrustFallsOnlyForStakers` |
| `peg_exchange` | two users, four fractions, two cycles, trades of 1 and 2 | `TypeOK`, `UpdateSucceeds`, `UsersOwnTheBooks`, `TradesSucceed`, `PoolIsHandedOut` |
| `consensus_states` | tree `Shallow`: 20 blocks, two branches, an invalid block, one crash | `StatesFollowChain`, `MerklesReadable`, `PoolsFollowChain` |
| `mem_pool` | seven transactions, three branches, intervals of 2, last checkpoint at height 2 | `TypeOK`, `PoolSpendsOnce`, `PoolOutsideChain`, `FractionsCurrent`, `ResurrectionComplete`, `TemplateConnects` |
| `withdrawals` | three fractions; seven families of wallet transactions; two withdrawals from three coins | `BooksBalance`, `ReserveStaysHome`, `PaymentsNeedLiquidity`, `ColdReturnsOrFreezes`, `StakeReturns`, `BooksMatchCoins`, `WithdrawalsSucceed`, `PaidAsAsked` |
| `postponed_failure`, `merkle_lost`, `new_block_index`, `lost_change` | | expected to fail, see section 4 |

Bounds, and why they are enough.

* `peg_supply`: the index of an interval depends on the votes of the second and
  third interval before it. Heights up to 14 give four intervals with the peg
  active, so that votes cast in the first reach the index, and the forecasts of
  the first two intervals are both put to the test. `MaxMarked` bounds the blocks that vote or
  are proof of work; with three, votes of different intervals, rivals and
  margins meet. `WeightStep = 3` and an index up to 5 make the vote multiplier
  and both clamps happen.
* `block_chain...`: trees of six to eight blocks besides the first, two
  branches that overtake each other, with a proof of stake used twice and
  outputs staked on both branches. Reorganisations of up to three blocks with
  postponed blocks occur. `MaxOrphans = 2` makes the orphan pool overflow. The
  prune interval is as long as the deepest reorganisation, as
  `PEG_PRUNE_INTERVAL` is meant to be. Two crashes let the second meet the
  remains of the first. The trees are finite, so the node stops when it has all
  blocks: deadlock is not checked there.
* `peg_exchange`: four fractions are enough for a reserve part, a partial
  fraction and two liquid ones; two users for a trade and for the rounding of
  the first to fall on the last. Holdings include empty ones. Users are
  interchangeable and no temporal property is checked, so the run uses symmetry.
  It ends at `MaxCycle`, so deadlock is not checked.
* `consensus_states`: cycles of 2 and bridge cycles of 4 blocks. A decision is
  made three cycles after its votes and a pool grows two bridge cycles after the
  burns, so the trunk of 20 blocks holds one of each before the fork: a bridge,
  a merkle it mints from, a change of thresholds and a pass that only the new
  thresholds allow. The branches part just above a cycle block, which is the
  deepest fork at which `ReadMerkleIn` does not yet see the wrong branch
  (section 4). `PoolsFollowChain` is stated for a node that did not crash.
* `mem_pool`: a double spend, a chain of two and a transaction that needs both
  that chain and another one; one branch mines across the end of an interval,
  one mines the double spend and what spends it in one block, one wins from behind
  with postponed blocks. The branches part below the last checkpoint: one has its
  transaction at the height of the checkpoint, which is not taken back, the others have
  theirs above it, which are, and the review at height 2 is always skipped. Orphans are
  evicted at `MaxOrphans = 2`. `new_block_index` has the checkpoint at height 1, so that
  the pool is reviewed before the interval at whose end the template fails.
* `withdrawals`: three fractions give a reserve, a liquid one and one that changes
  sides between the indexes 1 and 2. Payments have two inputs and two outputs over
  four addresses, the notarised ones up to two notaries and three outputs. Fees are
  scaled down (12, 2 and 1 for 1000000, 200000 and 10000) in such a way that part
  of the fee is always given back. Two withdrawals let the second spend the change
  of the first.
* Deadlock is not checked in the last four either: their trees, transactions and
  withdrawals are finite.

Fairness (`FairSpec`, for `Converges`): weak fairness of the steps of
`ProcessBlock` itself, because the thread that holds `cs_main` runs to the end;
and, for each block, weak fairness of receiving it while it can be received,
because the node asks for what it lacks (`PushGetBlocks`, `AskFor`) and peers
answer. Nothing is assumed of the order, and crashes are bounded, so that the
node is eventually left in peace. The instance has blocks that stake only outputs
older than the fork: `CheckProofOfStake` reads the transaction index of the
*current* best chain, and a branch that stakes outputs of its own cannot be
accepted block by block before it is the best one.

## 4. Findings

Four runs are expected to fail. Each shows the code doing something else than a
comment next to it says.

| Run | What happens |
|---|---|
| `postponed_failure` | A postponed block does not connect; `SetBestChain` sets the best block in memory to the end of the branch all the same (`main.cpp` 2959-2977). Memory and disk disagree until a restart. |
| `merkle_lost` | Two branches that part just below a cycle block take the same merkle there. When the second replaces the first, `ReadMerkleIn` still finds the first's in the main chain of the memory, and the merkle is not taken; afterwards it is found in neither (`peg_bridge.cpp` 135, `main.cpp` 4990). |
| `new_block_index` | `CreateNewBlock` calculates at the index of the last block, `ConnectBlock` at that of the new one: on the last block of an interval the template may not connect, though the pool was reviewed (`miner.cpp` 327-331). |
| `lost_change` | When the rest of a withdrawal's fee goes back to an address without change, its output comes after the exchange's notary, and the loop that skips "last (xch id)" skips it (`pegopsp.cpp` 1187). |

The following are smaller, or variations of the above; TLC finds each of them
with the instance named, and the passing runs are chosen around them.

* `FractionsKept` with an invalid block in the new branch, or with crashes:
  `DisconnectBlock` erases fractions from the peg database at once, `TxnAbort`
  brings back the transaction database only. Outputs of the chain that stays best
  cannot be spent any more (`main.cpp` 2941, `pegdb-leveldb.cpp` 188).
* A reorganisation deeper than `MaxReorg`: the depth check compares the new
  block's height, not the fork's, so a branch that keeps pace is never too deep
  (`main.cpp` 3259).
* `MainChainIsBest` with `MaxReorg = 1`: accepting a block of a side branch
  marks its ancestors as main chain for good (`main.cpp` 3353).
* Peg levels of different cycles compare as equal if the supply did not change: a
  trade that test 7 expects to fail goes through (`peglevel.cpp` 211).
* With a fork more than two cycles deep, votes are counted along the old
  branch's `Next()` (`peg_bridge.cpp` 276); beyond three, `Next()` is null.
* A pool transaction whose input is in neither the chain nor the pool, which
  `miner.cpp` 190 says should never happen: a parent that a reorganisation
  disconnects and does not take back leaves its spender there. The template
  leaves it out.

## 5. Proofs

All theorems are for every value of the constants that meets the assumptions
(`ASSUME`) of the module.

**PegSupply_proofs.** `TypeCorrect`, `IndexConstant`, `StepBounded`,
`ForecastsComeTrue`, `SumsAreOwn`. The assumption that matters is
`PegStartHeight > 3 * PegInterval`: otherwise the walks back run past the first
block. The invariants are not inductive: that the blocks of an interval agree
needs the relation between neighbours, and that a forecast holds needs to know
from which votes the index of every later block was computed. `ChainInv` adds
that every block's index is what `GetNextBlockPegSupplyIndex` gives for its
predecessor. From it the index at any height of an interval is traced to the
first block of the interval and to the votes at two fixed heights; the three
functions are shown to read the same heights by arithmetic on interval starts,
and those heights lie below the block a quote depends on. `SumsAreOwn` is inductive
with the types: the blocks whose ballots count change by one block at a connect, or
start anew (`CountedStep`), and the sums of the blocks below do not depend on it
(`SumsLocal`).

**BlockChain_proofs.** `TypeCorrect` and `IndexClosed`. `IndexInv` adds to
`TypeOK` and `IndexIsClosed` that the switch under way is well formed: its
blocks are indexed, its target and the blocks still to be connected are linked
as the tree says. It is what makes `Commit` leave `txdb.best` in the index.

Then the committed database. `TxInv` says of the open transaction that its
transactions are those of the chain at hand with the blocks done so far taken
off or put on; at the commit this is the chain of the target, hence
`TxIndexConsistent`. `SpentInv` says the same of spent outputs, and that no two
blocks of the transaction spend one output, which `CanConnect` keeps; hence
`SpentConsistent`. `TrustRises` (the target of a switch has more trust than the
best block on disk) gives `DiskIsLedger`, the refinement, assuming that no
block belongs to a trusted staker: a trusted staker's fork may lower the trust,
which is what `TrustFallsOnlyForStakers` is about.

Then what memory holds beside the disk. `MemoryIsDisk`: `LinkInv` follows the next pointers of memory and disk block by
block through the open transaction. `TrustFallsRarely`: `NewIsBetter` says why
`SetBestChain` works for its block. The other four have hypotheses, each a way
for the code to break the property which the run with faults or a look at the
code shows:

| Theorem | Hypotheses |
|---|---|
| `NoOrphanForgotten` | `NothingRefused`: a refused block keeps its index entry, and its orphans are not looked at |
| `HeaviestIsBest` | `NothingRefused`, `NoRestart`, no trusted stakers: each lets a heavier block stay indexed without being followed |
| `MainChainIsBestChain` | no trusted stakers, `ShallowForks(MaxReorg + 1)` |
| `FractionsNeverLost` | `NothingRefused`, `NoRestart`, no trusted stakers, `ShallowForks(PruneInterval)`: fractions are erased outside the transaction and pruned by height |

`ShallowForks(d)` says that a chain with no more trust than another has at most
`d` blocks the other lacks. The code does not enforce it, since `AcceptBlock`
compares the heights of the two ends and not where they part. The trees `Fork`
and `Twins` of the runs satisfy both forms, `Uneven` does not; with
`MaxReorg = 1` TLC finds `MainChainIsBest` violated on `Fork`, where
`ShallowForks(2)` fails.

**Sums_proofs, PegFractions_proofs.** A theory of finite sums and of the parts of
fractions. The library's induction theorems take an operator, which the provers cannot
instantiate; here a claim about all numbers or all subsets is put as a set of
cases, `{n \in Nat : ...}` or `{T \in SUBSET S : ...}`, and `NumberInduction` and
`SubsetInduction` show that such a set is everything (from the well-foundedness
of the natural numbers, by a least element that is missing). With them the fold of
`MapThenSumSet` gets its recursion equation (`SumRecursion`) and `SumOf` its laws:
order does not matter, sums add, scale, compare, can be taken in parts and in
either order (`SumSwap`). `RatioPartIsExact` says that `RatioPart` takes no more
than there is of any fraction and exactly the amount asked for in all: what
rounding loses is less than the number of fractions that can give one more.
`LevelLemma` says that `CPegLevel` is well formed and that a valid one takes less
than the whole of its last fraction.

**PegExchange_proofs.** All five invariants of `PegExchange`, for any finite set of
users, any number of fractions, any holdings, trades, levels and shifts; the
assumption on shifts (`Total(s) = 0`) is not used. `ExchangeInv` adds to the types:

* the pool and every updated balance are at the level, and valid; a balance that
  is not updated is one cycle behind;
* a user *holds* his balance once updated, before that only what is below the
  level: fraction by fraction, what the users hold and the pool add up to the
  books (`BooksInv`), and so do the totals of all balances;
* the pool has nothing below the level, and its reserve is no more than the
  users still to come are *due* of the last fraction (`PoolInv`).

`PoolIsOwed` sums the books both ways: the pool is exactly the liquid of the users
still to come. So one user's liquid, and beyond it the reserve kept for the others,
is always there (`KeepLemma`), which is all that `UpdateLemma` needs for the
checks of `updatepegbalances` to pass; and with nobody to come the pool is empty.
A new level starts with enough due because the reserve of each user is rounded
up (`DueLemma`). `MoveSucceeds` does the same for the checks of a trade. The
invariant was checked with TLC on the run's instance before it was proved.

**TxFractions_proofs.** All five properties of `TxFractions`. The assumptions are the
types of the constants (`TransactionsAssumption`, `SuppliesAssumption`); nothing is
asked of the values of the outputs or of where the notaries point.
`BooksBalanceAlways`: whatever inputs, notaries, frozen and cold coins a standard
transaction has, no step of `CalculateStandardFractions` makes, loses or doubles a
part of a fraction, or takes more of one than there is. `IInv` adds to the
books:

* reserves hold fractions below the supply index only and liquidity those from it on
  (`PoolInv`), so that taking a part by `LowPart` and `HighPart` from the two pools
  takes each of its fractions where it is;
* an output set aside carries the value of the output it is for, and a pair that shares
  a reserve points into the frozen outputs and at an address that has reserve
  (`FrozenInv`), which keeps the quota of the first within the reserve (`FairShare`);
* the outputs made are the first `n - 1` (`PhaseInv`), so that an output set aside is
  counted once, before or after it is made.

One lemma per action shows that it moves fractions from one place to another
(`Taken1`, `Made1`). For an output that draws on several reserves, `GreedyLemma` says
what each gives, `AscendingLemma` that no source occurs twice, and `DrawnLemma` that
what is drawn and what is left are what was there; `RatioPartIsExact` makes the amount
of every part exact. Coinstakes do not go through these steps and this theorem says
nothing of them.

The others put one more invariant each on top of `IInv`:

* `ReserveStaysHomeAlways` from `HomeInv` and `LiquidInv`. Of every fraction below the
  supply index, the pool of an address and its plain outputs together hold no more
  than its inputs brought, and plain outputs to other addresses hold none. What L or
  V set aside is liquid, and a frozen output without a mark is cold: a cold input
  whose place L or V marked finds an output worth nothing (`ColdTaken` refuses any
  other) and brings no reserve into it.
* `ColdReturnsOrFreezesAlways` from `ColdInv`. The place of every cold input taken
  holds the input's part of that output's value, unmarked or marked F, whatever
  notaries follow (`ColdPlaces`); the cold fee is what those parts leave of the
  inputs (`ColdFeeRest`); an output set aside is made of what was set aside
  (`AsideMade`). The property is about cold inputs that have coins: one without
  passes `ColdTaken` at a place which a shared freeze fills later.
* `PaymentsNeedLiquidityAlways` from `PayInv`. At every step the reserve of an address
  is what its inputs brought less what was sent to it, or nothing if that is more,
  and the liquid left is that of all inputs less what was sent beyond the reserves.
  `Over(x, y)` is what `x` is over `y`, and `OverLemma` how it changes when an output
  is added. An output is refused when what is beyond so far, with it, is more than
  the liquid; since that amount only grows with further outputs (`BeyondLemma`), the
  payment as a whole was not payable. If no output is refused, `PayTotals` shows that
  the final check of the totals passes, by the books and `SumSwap`.
* `StakeReturnsAlways` is about `CalculateStakingFractions`, one action.
  `HandedExists` shows that the recursion by which the outputs divide the reward has a
  solution, `HandAll` that each output but the stake's gets exactly its value, because
  what is left always covers the outputs to come (`Handing`); at the start
  `StakeAllowed` says so.

`IInv` and `PaymentInv` were checked with TLC on the run `withdrawals` first, as were
the properties themselves.

**MemPool_proofs.** All six invariants of `MemPool`, for every set of transactions,
every tree of blocks that connect and every limit. None is inductive alone; there are
three invariants on top of each other.

`IInv` gives `PoolTypeCorrect`, `PoolSpendsOnceAlways` and `PoolOutsideChainAlways`.
`PoolSpendsOnce` needs that pooled transactions are never coinbases and that the
three maps of the pool have one domain (`PoolInv`); `PoolOutsideChain` needs to know
where the handlers are: that outside of `SetBestChain` the database holds the chain
of `pindexBest`, so that a reorganisation deletes all its new transactions, and that
`vDelete` is empty unless `Reorganize` runs (`LoopInv`, with the types of
`StateInv`). `AddKeepsPool` and `RemoveKeepsPool` say what `addUnchecked` and
`remove` do to the maps, for any set removed; every action then falls to one of
them or leaves the pool alone.

`ResurrectInv` gives `ResurrectionIsComplete`, for the transactions of disconnected
blocks above the last checkpoint, wherever that lies; the code takes back no others, and
nothing is claimed of them. While `Reorganize` takes transactions
back, what it has tried is either in the pool or still not acceptable
(`StaysRefused`). The order matters: an input of a disconnected transaction comes from
an earlier place of the same branch (`InputsComeFirst`), so nothing taken later can
supply it. This uses that a block holds a transaction once and spends only what was
connected before (`ConnectAssumption`, which is what `CheckBlock` and `ConnectBlock`
accept).

`CurrentInv` gives `FractionsStayCurrent` and, with `TemplateLemma`,
`TemplatesConnect`. While nothing is reviewed, the fractions of the pool are those
the next block would compute. During `reviewOnPegChange` this holds of no
transaction in particular, because a root may still change what its dependents are
computed from. `Settled` says what does: of any set that holds everything still
awaited (roots, spenders of outputs on the stack, what is to be removed) and is closed
under spending, the transactions outside are computed from what their inputs have
now. At the end nothing is awaited but what `remove` takes, whose dependents
`DependentsLemma` shows to be the least closed set, and `ReviewEnds` concludes by
induction over the order of transactions. `Origins`, `WithDependents` and `Template`
are recursive functions; `NatRecursion` and `OriginsExists` prove that the functions
they define exist.

**PegWithdraw_proofs.** `BooksMatchCoinsAlways`, `PaidAsAskedAlways` and
`WithdrawalsSucceedAlways`, for any coins, books, balances, levels and amounts, and any
number of withdrawals. The proofs use those about `TxFractions`: a call starts a
calculation (`Starting`), and `IInv` and `ReserveInv` hold from there as they do from
`Init`.

`WInv` says that a call runs or none does. `SessionInv` holds in both cases: coins
and books are of their types, and what `BooksMatchCoins` says of them. While a call runs,
`CallInv` and `AskInv` keep what was asked for and planned, and `TxOfCall` that the
transaction is the one of the plan: the coins used as inputs, the notaries, the user's
output, change at addresses of these coins, the exchange's notary. Change may be
appended behind that notary, so `PaysOut` and `NotaryKinds` say which outputs
are notaries and which change. `DoneBooks` takes from `IInv` that outputs and fee of the second
calculation are the coins used, fraction by fraction. `Account` then takes the user's
output of it off the coins and books the fee of the first (`Processed`): shift and
kept fees are just the differences. The new numbers of the change do not collide with
the old coins (`Renumbering`).

`PaidInv` is kept beside `WInv` for `PaidAsAsked`. A liquid withdrawal freezes nothing,
so its output is plain and goes to an address that brought no reserve, which by
`ReserveInv` is paid in liquid. In one of reserve every input freezes the user's output
and no other (`FreezesOnly`, `FrozenAlone`). That output is filled from all reserves
(`FrozenSourcesAll`): either these suffice and it is reserve, or none is left
(`Unreserved`) and all change behind it is liquid (`FilledOfReserve`, `PlainIsLiquid`).

`SucInv`, on top of `WPaid`, is what `WithdrawalsSucceed` needs. The code plans the change
of each address before it builds the transaction, and the calculation has to agree with
that plan output by output. Unless the inputs cannot pay for the notaries (`Poor`), a
running call `KeepsPlan` or was refused at an output that `MissesUnit`:

- `Exact`: `nLiquidity` is the liquid there is, and every output made is worth its value.
- While inputs are taken, `ReservesKept` and `FrozenLast` say where their fractions wait.
- `BeforePaid`: up to the user's output no address has more reserve than the plan keeps
  for it (`PlanStores`), so that the output finds all the plan wants to pay with.
- `AfterPaid`: behind it the liquid suffices for what the outstanding change `Needs`
  beyond the reserve of its addresses, but for one unit once the exchange's notary is
  paid (`NotaryPaid`): that notary may take the unit out of a reserve which an output
  behind it counts on.
- At the end the totals agree (`TotalsMatch`), the fee is paid in full (`WholeFee`) and
  the balance left to the user is well formed (`BalanceLeft`), so `AccountsMatch`.

`OutputFills` says which sources an output takes from; `NotaryMade`, `UserMade`,
`ExchangeMade` and `ChangeMade` then carry `KeepsPlan` over each kind of output, and
`FinishMade` over the end. TLC checked `SucInv` on `withdrawals` before it was proved.

Only model-checked: the temporal property `Converges` (liveness is out of the
prover's reach) and the properties of `ConsensusStates`. The latter are not theorems as they stand: `merkle_lost` violates `StatesFollowChain`, and
forks deeper than the run's break the other two (section 4). They hold for
the trees of blocks that the run has.

## 6. Plan

In this order; the first nine are done, the tenth for `PegWithdraw`.

1. `PegSupply`, with proofs.
2. `BlockChain` and `Ledger`, with proofs.
3. `PegFractions` and `PegExchange`, with proofs.
4. `PegWithdraw`: withdrawals and the peg shift.
5. `TxFractions`: standard and staking transactions.
6. `ConsensusStates`, composed with `BlockChain`.
7. `MemPool`, with proofs.
8. Proofs about the memory of `BlockChain` beside its disk.
9. Proofs of the properties of `TxFractions`, on the sums of `Sums_proofs`, and of the
   last invariant of `PegSupply`.
10. Proofs about `PegWithdraw`; then about `ConsensusStates`, for trees without deep forks.
11. The minting transaction, on `TxFractions` and the pools of `ConsensusStates`.

## 7. Not modelled

* Within `BlockChain`: contents of blocks beyond stakes and outputs, timestamps
  and the checkpoint-time check, misbehaviour scores, wallet signals, `nBestInvalidTrust` (written, never used to decide), the optional
  re-verification and roll-back at start-up, the address index, the pruning of
  vote and notary outputs, `-reindex` and `-loadblock`.
* Within `MemPool`: mints, maturity and lock times, fees and rate limits, scripts
  and standardness, outputs whose fractions were pruned; blocks that do not
  connect, for which the pool is not touched.
* Within `TxFractions` and `PegWithdraw`: `CalculateCoinMintFractions` and the
  first version of the staking rule, keys and signatures, `removecoins` (a bare
  subtraction), `updatetxout` (a query), and the RPC twins of the withdrawals in
  `exchange/rpcwithdraw.cpp`, which read the level and the inputs from the node
  and then do the same.
* Within `ConsensusStates`: Merkle trees and proofs, the fractions inside a pool
  and their compression, the parsing of proposals, orphan blocks.
* The conversion of a chain to the peg (`SetBlocksIndexesReadyForPeg`) and the
  activation of the peg by a transaction: done once.
* Wallet (coin selection, staking loop), network layer, alerts, address manager,
  time offsets: no state shared with the parts above other than through the
  calls modelled.
* Script interpreter, keys, hashing, serialisation, RPC formatting, GUI: pure
  computation or I/O.
* Vendored code (`leveldb`, `libethc`, `secp256k1`, `json`, `zlib`): LevelDB is
  taken to apply a batch as a whole, which is its contract.
