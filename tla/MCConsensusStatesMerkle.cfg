\* Two branches that part just above a cycle block take the same merkle.
CONSTANTS
  Genesis = 0
  Null = Null
  NoStake = NoStake
  NoState = NoState
  Tree <- Boundary
  Blocks <- MCBlocks
  Prev <- MCPrev
  Chain <- FlatChain
  nHeight <- FlatHeight
  nChainTrust <- FlatTrust
  Outs = {1}
  Prevout <- MCPrevout
  StakeTime <- MCStakeTime
  Invalid = {}
  TrustedStaked = {}
  MaxReorg = 10
  TrustDepth = 20
  MinConfirmations = 1
  MaxOrphans = 0
  PegStartHeight = 8
  PruneInterval = 30
  MaxCrashes = 0
  PegInterval = 2
  BridgeInterval = 4
  Proposals <- MCProposals
  Detail <- MCDetail
  Votes <- MCVotes
  Burns <- MCBurns
  Mints <- NoMints
  Bridges = {"br"}
  Merkles = {"m", "n"}
  TrustedStakers1Init = {"a"}
  TrustedStakers2Init = {"b"}
  ConsensusInit <- MCConsensusInit
  TimeLockPassesInit = {"k1"}
SPECIFICATION ConsensusSpec
INVARIANT StatesFollowChain
CHECK_DEADLOCK FALSE
