\* Shallow forks, a refused block and a crash.
CONSTANTS
  Genesis = 0
  Null = Null
  NoStake = NoStake
  NoState = NoState
  Tree <- Shallow
  Blocks <- MCBlocks
  Prev <- MCPrev
  Chain <- FlatChain
  nHeight <- FlatHeight
  nChainTrust <- FlatTrust
  Outs = {1}
  Prevout <- MCPrevout
  StakeTime <- MCStakeTime
  Invalid = {29}
  TrustedStaked = {}
  MaxReorg = 10
  TrustDepth = 20
  MinConfirmations = 1
  MaxOrphans = 0
  PegStartHeight = 8
  PruneInterval = 30
  MaxCrashes = 1
  PegInterval = 2
  BridgeInterval = 4
  Proposals <- MCProposals
  Detail <- MCDetail
  Votes <- MCVotes
  Burns <- MCBurns
  Mints <- ShallowMints
  Bridges = {"br"}
  Merkles = {"m", "n"}
  TrustedStakers1Init = {"a"}
  TrustedStakers2Init = {"b"}
  ConsensusInit <- MCConsensusInit
  TimeLockPassesInit = {"k1"}
SPECIFICATION ConsensusSpec
INVARIANTS
  StatesFollowChain
  MerklesReadable
  PoolsFollowChain
CHECK_DEADLOCK FALSE
