-------------------------- MODULE ConsensusStates --------------------------
(***************************************************************************)
(* What stakers decide by vote: trusted stakers, voting thresholds,        *)
(* bridges, the merkle roots bridges may mint from, time lock passes       *)
(* (src/peg/peg_bridge.cpp, src/proposals.cpp), and the pools of coins     *)
(* that were sent over a bridge.  At every peg cycle block the decisions   *)
(* of the previous cycle are copied and the votes cast three cycles ago    *)
(* are counted.                                                            *)
(*                                                                         *)
(* All of it is written to the peg database by ConnectBlock, at once and   *)
(* outside of the transaction of the switch of chains.  The module adds    *)
(* that state to BlockChain and composes its actions: where BlockChain     *)
(* connects a block, the writes of this module happen too.  Blocks arrive  *)
(* in order here; orphans are BlockChain's own subject.                    *)
(***************************************************************************)
EXTENDS BlockChain, FiniteSetsExt

CONSTANTS
  PegInterval, BridgeInterval,   \* Params().PegInterval(), BridgeInterval()
  Proposals,        \* proposal hashes: numbers, in the order of the hashes
  Detail,           \* NotaryToProposal: scope, action, item and thresholds of a proposal
  Votes,            \* the votes in the coinstake of a block
  Burns,            \* bridge -> coins that "**Z**" outputs of a block send over it
  Mints,            \* the mint transactions of a block
  Bridges, Merkles,
  TrustedStakers1Init, TrustedStakers2Init, ConsensusInit, TimeLockPassesInit,
  NoState           \* a cycle block without consensus states

ASSUME IntervalAssumption ==
  /\ PegInterval \in Nat \ {0}
  /\ BridgeInterval \in Nat \ {0} /\ BridgeInterval % PegInterval = 0
  /\ PegStartHeight > 3 * PegInterval      \* the walks back from the first cycles
  /\ PegStartHeight >= 2 * BridgeInterval  \* stay above the first block

ASSUME VotesAssumption ==
  \A b \in Blocks : Votes[b] # {} => IsProofOfStake(b)

VARIABLES
  cycleStates,      \* intervalStateHash_: cycle block -> the states decided
  cycleProposals,   \* cycleProposals_: cycle block -> proposals voted on in its cycle
  blockVotes,       \* proposalBlockVotes_: block -> the votes it cast
  merkleKey,        \* intervalStateDataKey_: merkle -> the cycle block that took it
  merkleItem,       \* intervalStateDataItem_: merkle -> its proposal and height
  pools             \* bridge -> height -> coins in the pool after that block

cvars == <<cycleStates, cycleProposals, blockVotes, merkleKey, merkleItem, pools>>
allVars == <<vars, cvars>>

---------------------------------------------------------------------------
(* Walks over the block index *)

Ancestor(b, h) == CHOOSE a \in Chain[b] : nHeight[a] = h

PegCycleBlock(b) == Ancestor(b, nHeight[b] - (nHeight[b] % PegInterval))
PrevPegCycleBlock(b) == Ancestor(PegCycleBlock(b), nHeight[PegCycleBlock(b)] - PegInterval)

IsCycle(b) == nHeight[b] >= PegStartHeight - 1 /\ nHeight[b] % PegInterval = 0
IsBridgeCycle(b) == nHeight[b] >= PegStartHeight - 1 /\ nHeight[b] % BridgeInterval = 0

\* The n blocks from `from' on, along Next()
NextBlocks(next, from, n) ==
  LET walk[i \in 0..(n - 1)] == IF i = 0 THEN from
                                ELSE IF walk[i - 1] = Null THEN Null ELSE next[walk[i - 1]]
  IN  {walk[i] : i \in 0..(n - 1)}

\* Mutant: the votes of the cycle before are counted.
LateVotesCycleBlock(b) == Ancestor(b, nHeight[b] - 2 * PegInterval)

VotesCycleBlock(b) == Ancestor(b, nHeight[b] - 3 * PegInterval)

\* Mutant: the burns of the last bridge cycle are added.
NearBurnsCycleBlock(b) == Ancestor(b, nHeight[b] - BridgeInterval)

BurnsCycleBlock(b) == Ancestor(b, nHeight[b] - 2 * BridgeInterval)

---------------------------------------------------------------------------
(* Counting and applying *)

\* Votes are pairs of a block and what it voted.  A trusted staker counts once
\* however often and on whose behalf; others count each vote of their own, and
\* once if somebody votes for them ("S:").
ProVotes(state, votes) ==
  LET voters == {v[2].voter : v \in votes}
      trusted == state.tstakers1 \union state.tstakers2
      others == {v \in votes : v[2].voter \notin trusted}
  IN  [tstakers1 |-> Cardinality(voters \intersect state.tstakers1),
       tstakers2 |-> Cardinality(voters \intersect (state.tstakers2 \ state.tstakers1)),
       ostakers  |-> Cardinality({v \in others : ~v[2].onbehalf})
                     + Cardinality({v[2].voter : v \in {o \in others : o[2].onbehalf}})]

isAccepted(voted, needed) ==
  /\ voted.tstakers1 >= needed.tstakers1
  /\ voted.tstakers2 >= needed.tstakers2
  /\ voted.ostakers >= needed.ostakers

ConsensusType(scope) == IF scope \in {"tstakers1", "tstakers2"} THEN "tstakers" ELSE scope

\* A change of thresholds must also reach the thresholds it asks for.
Accepts(state, p, votes) ==
  /\ isAccepted(ProVotes(state, votes), state.consensus[ConsensusType(Detail[p].scope)])
  /\ Detail[p].scope = "consensus" => isAccepted(ProVotes(state, votes), Detail[p].votes)

\* The states after proposal p was accepted; `readable' are the merkles
\* ReadMerkleIn finds.  Proposals on trusted stakers have four fields and the
\* code applies only those with three: they change nothing.
Applied(state, p, readable) ==
  LET d == Detail[p]
      Changed(set) == IF d.action = "add" THEN set \union {d.item} ELSE set \ {d.item}
  IN  CASE d.scope \in {"tstakers1", "tstakers2"} -> state
        [] d.scope = "consensus" -> [state EXCEPT !.consensus[d.item] = d.votes]
        [] d.scope = "bridge" -> [state EXCEPT !.bridges = Changed(@)]
        [] d.scope = "timelockpass" -> [state EXCEPT !.timelockpasses = Changed(@)]
        [] d.scope = "merkle" /\ d.item \in {"pause", "resume"} ->
             [state EXCEPT !.pause = (d.item = "pause")]
        [] d.scope = "merkle" /\ d.item \notin {"pause", "resume"} ->
             IF state.pause \/ d.item \in readable THEN state
             ELSE [state EXCEPT !.merkles = Append(@, d.item)]

Largest(S) == CHOOSE p \in S : \A q \in S : q <= p

InitStates == [tstakers1 |-> TrustedStakers1Init, tstakers2 |-> TrustedStakers2Init,
               consensus |-> ConsensusInit, bridges |-> {}, merkles |-> <<>>,
               timelockpasses |-> TimeLockPassesInit, pause |-> FALSE]

---------------------------------------------------------------------------
(* ConnectConsensusStates: the first writes of ConnectBlock, before the     *)
(* block's transactions are looked at                                       *)

\* Mutant: whatever block took the merkle, it is taken.
AnywhereReadMerkleIn(key, m) == key[m] # Null

\* ReadMerkleIn: the block that took the merkle has to be in the main chain,
\* which is the one in memory.
ReadMerkleIn(key, m) == key[m] \in mapBlockIndex /\ IsInMainChain(key[m])

Readable(key) == {m \in Merkles : ReadMerkleIn(key, m)}

\* The six Init functions: the cycle block of the peg's start, found from the
\* best block in memory, gets the states of the chain parameters.
StartBlock == Ancestor(pindexBest, IF nHeight[pindexBest] < PegStartHeight - 1
                                   THEN nHeight[pindexBest] ELSE PegStartHeight - 1)

PegInit(b) ==
  IF nHeight[b] = PegStartHeight - 1
  THEN [cycleStates EXCEPT ![PegCycleBlock(StartBlock)] = InitStates]
  ELSE cycleStates

\* Reading a null Next() kills the process: counting votes, or adding up burns.
Dies(b) ==
  \/ /\ IsCycle(b) /\ cycleProposals[VotesCycleBlock(b)] # {}
     /\ Null \in NextBlocks(pNext, VotesCycleBlock(b), PegInterval)
  \/ IsBridgeCycle(b) /\ Null \in NextBlocks(pNext, BurnsCycleBlock(b), BridgeInterval)

StatesMissing(b) == IsCycle(b) /\ PegInit(b)[PrevPegCycleBlock(b)] = NoState

\* The proposals in the order of their hashes, each on what the ones before it
\* left.  A merkle that is taken moves its key and item to this block.
CycleResult(b) ==
  LET voting == NextBlocks(pNext, VotesCycleBlock(b), PegInterval)
      Cast(p) == UNION {{<<w, v>> : v \in {u \in blockVotes[w] : u.pro = p}} : w \in voting}
      Step(r, p) ==
        IF ~Accepts(r.state, p, Cast(p)) THEN r
        ELSE LET next == Applied(r.state, p, Readable(r.key))
             IN  IF next.merkles = r.state.merkles THEN [r EXCEPT !.state = next]
                 ELSE [state |-> next,
                       key  |-> [r.key EXCEPT ![Detail[p].item] = b],
                       item |-> [r.item EXCEPT ![Detail[p].item] = [pro |-> p, ntime |-> nHeight[b]]]]
      result[S \in SUBSET Proposals] ==
        IF S = {} THEN [state |-> PegInit(b)[PrevPegCycleBlock(b)], key |-> merkleKey, item |-> merkleItem]
        ELSE Step(result[S \ {Largest(S)}], Largest(S))
  IN  result[cycleProposals[VotesCycleBlock(b)]]

\* What ConnectConsensusStates leaves in the database
Consensus(b) ==
  IF IsCycle(b)
  THEN LET r == CycleResult(b)
       IN  [states |-> [PegInit(b) EXCEPT ![b] = r.state], key |-> r.key, item |-> r.item]
  ELSE [states |-> PegInit(b), key |-> merkleKey, item |-> merkleItem]

---------------------------------------------------------------------------
(* Pools and votes *)

BridgesAt(states, b) ==
  IF states[PegCycleBlock(b)] = NoState THEN {} ELSE states[PegCycleBlock(b)].bridges

\* Burns to br in the blocks of W, from the first cycle block of W on that
\* knows the bridge
BurnsIn(states, W, br) ==
  LET known == {w \in W : \E c \in W : /\ nHeight[c] <= nHeight[w]
                                       /\ nHeight[c] % PegInterval = 0
                                       /\ br \in BridgesAt(states, c)}
  IN  MapThenSumSet(LAMBDA w : Burns[w][br], known)

MintsOf(b, item, br) == MapThenSumSet(LAMBDA m : m.amount,
                                      {m \in Mints[b] : Detail[item[m.merkle].pro].bridge = br})

\* FetchBridgePoolsFractions and ConnectBridgeCycleBurns: the pool after the
\* block below, and at a bridge cycle the burns of the cycle before the last.
PoolBefore(states, b, br) ==
  LET fetched == IF br \in BridgesAt(states, b) THEN pools[br][nHeight[b] - 1] ELSE 0
      W == NextBlocks(pNext, BurnsCycleBlock(b), BridgeInterval)
  IN  fetched + IF IsBridgeCycle(b) THEN BurnsIn(states, W, br) ELSE 0

\* FetchInputs of the mints: the merkle is found, its bridge is known, the time
\* is the one the merkle asks for, and the pool has the coins.
MintsOK(b, c) ==
  /\ \A m \in Mints[b] :
       /\ ReadMerkleIn(c.key, m.merkle)
       /\ nHeight[b] > PegStartHeight
       /\ Detail[c.item[m.merkle].pro].bridge \in BridgesAt(c.states, b)
       /\ m.ntime = c.item[m.merkle].ntime + 1
  /\ \A br \in Bridges : Mints[b] # {} => MintsOf(b, c.item, br) <= PoolBefore(c.states, b, br)

ConnectPools(b, c) ==
  [br \in Bridges |->
     IF /\ nHeight[b] >= PegStartHeight - 1
        /\ \/ br \in BridgesAt(c.states, b)
           \/ IsBridgeCycle(b) /\ \E w \in NextBlocks(pNext, BurnsCycleBlock(b), BridgeInterval) :
                br \in BridgesAt(c.states, w)
     THEN [pools[br] EXCEPT ![nHeight[b]] =
             PoolBefore(c.states, b, br) - IF Mints[b] = {} THEN 0 ELSE MintsOf(b, c.item, br)]
     ELSE pools[br]]

\* CalculateBlockBridgeVotes: a vote on a merkle needs its bridge.
BlockVotes(states, b) ==
  IF nHeight[b] < PegStartHeight THEN {}
  ELSE {v \in Votes[b] : Detail[v.pro].scope = "merkle" =>
                           Detail[v.pro].bridge \in BridgesAt(states, b)}

---------------------------------------------------------------------------
(* Actions *)

\* The writes that ConnectBlock does before it looks at the transactions
WriteConsensus(c) ==
  /\ cycleStates' = c.states
  /\ merkleKey' = c.key
  /\ merkleItem' = c.item

StatesInit ==
  /\ Init
  /\ cycleStates = [b \in Blocks |-> NoState]
  /\ cycleProposals = [b \in Blocks |-> {}]
  /\ blockVotes = [b \in Blocks |-> {}]
  /\ merkleKey = [m \in Merkles |-> Null]
  /\ merkleItem = [m \in Merkles |-> [pro |-> 0, ntime |-> 0]]
  /\ pools = [br \in Bridges |-> [h \in {nHeight[b] : b \in Blocks} |-> 0]]

Connect(b) ==
  LET c == Consensus(b)
      cast == BlockVotes(c.states, b)
  IN  /\ ConnectStep(b)
      /\ ~Dies(b) /\ ~StatesMissing(b) /\ MintsOK(b, c)
      /\ WriteConsensus(c)
      /\ cycleProposals' = [cycleProposals EXCEPT ![PegCycleBlock(b)] = @ \union {v.pro : v \in cast}]
      /\ blockVotes' = [blockVotes EXCEPT ![b] = @ \union cast]
      /\ pools' = ConnectPools(b, c)

\* A block is refused: for its transactions, or because the states or a mint's
\* merkle or coins are missing.  The consensus states stay written.
Fail(b) ==
  LET c == Consensus(b)
  IN  /\ pc = "txn" /\ Connecting(b)
      /\ ~Dies(b)
      /\ IF StatesMissing(b) THEN UNCHANGED <<cycleStates, merkleKey, merkleItem>>
         ELSE (~CanConnect(txn, b) \/ ~MintsOK(b, c)) /\ WriteConsensus(c)
      /\ IF txn.first THEN Refused /\ UNCHANGED pindexBest
         ELSE Accepted(txn.pindexNew) /\ pindexBest' = txn.pindexNew
      /\ UNCHANGED <<mapBlockIndex, setStakeSeen, pNext, mapOrphanBlocks, setStakeSeenOrphan,
                     txdb, fractions, crashes, cycleProposals, blockVotes, pools>>

ConsensusNext ==
  \/ \E b \in Blocks : Connect(b) \/ Fail(b)
  \/ /\ \/ \E b \in Blocks : ProcessBlock(b) \/ DisconnectStep(b)
        \/ NextInQueue
        \/ Commit
        \/ Restart
     /\ UNCHANGED cvars

ConsensusSpec == StatesInit /\ [][ConsensusNext]_allVars

---------------------------------------------------------------------------
(* Properties *)

\* The reference: what the chain that ends in cycle block c decides there, from
\* its states one cycle before and from its own blocks.
Decided(c) ==
  LET before == IF nHeight[c] < PegStartHeight + PegInterval THEN InitStates
                ELSE cycleStates[PrevPegCycleBlock(c)]
      voting == {w \in Chain[c] : nHeight[w] >= PegStartHeight /\ nHeight[w] \in
                   (nHeight[c] - 3 * PegInterval)..(nHeight[c] - 2 * PegInterval - 1)}
      cast == UNION {{w} \X BlockVotes(cycleStates, w) : w \in voting}
      result[S \in SUBSET Proposals] ==
        IF S = {} THEN before
        ELSE LET p == Largest(S)
                 r == result[S \ {p}]
             IN  IF Accepts(r, p, {v \in cast : v[2].pro = p})
                 THEN Applied(r, p, {r.merkles[i] : i \in DOMAIN r.merkles})
                 ELSE r
  IN  result[{v[2].pro : v \in cast}]

\* The cycle blocks of the best chain since the peg started
Cycles == {c \in Chain[pindexBest] : nHeight[c] >= PegStartHeight /\ nHeight[c] % PegInterval = 0}

\* The states stored for every cycle of the best chain are those its own blocks
\* decide: no vote of a block that left the chain counts, none of the chain is
\* lost, whatever was connected, refused or cut short before.
StatesFollowChain ==
  pc # "txn" => \A c \in Cycles : cycleStates[c] = Decided(c)

\* A merkle is found by ReadMerkleIn, which mints depend on, exactly if it is in
\* the list of merkles of the best chain, and with the height at which that
\* chain took it.
MerklesReadable ==
  pc # "txn" /\ nHeight[pindexBest] >= PegStartHeight =>
    \A m \in Merkles :
      LET taken == {c \in Cycles : \E i \in DOMAIN cycleStates[c].merkles : cycleStates[c].merkles[i] = m}
      IN  /\ ReadMerkleIn(merkleKey, m) <=> taken # {}
          /\ taken # {} => merkleItem[m].ntime = nHeight[Lowest(taken)]

\* As long as no switch of chains was cut short, the pool of a bridge at the
\* best block holds what the best chain burned for it, up to the last but one
\* bridge cycle, less what that chain minted.
PoolsFollowChain ==
  LET b == pindexBest
      closed == nHeight[b] - (nHeight[b] % BridgeInterval) - BridgeInterval
      burned(br) == MapThenSumSet(LAMBDA w : Burns[w][br],
                      {w \in Chain[b] : nHeight[w] < closed /\ br \in BridgesAt(cycleStates, w)})
      minted(br) == MapThenSumSet(LAMBDA w : MintsOf(w, merkleItem, br), {w \in Chain[b] : Mints[w] # {}})
  IN  pc # "txn" /\ crashes = 0 =>
        \A br \in BridgesAt(cycleStates, b) : pools[br][nHeight[b]] = burned(br) - minted(br)
=============================================================================
