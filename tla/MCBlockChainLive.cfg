\* Every block is sent until the node has it, and a fork with a trusted staker may win
\* with less trust: the node settles on the most trust.
CONSTANTS
  Genesis = 0
  Null = Null
  NoStake = NoStake
  Tree <- Twins
  Blocks <- MCBlocks
  Prev <- MCPrev
  Chain <- MCChain
  nHeight <- MCHeight
  nChainTrust <- MCTrust
  Outs = {1, 2, 3}
  Prevout <- MCPrevout
  StakeTime <- MCStakeTime
  Invalid = {}
  TrustedStaked = {4, 5}
  MaxReorg = 3
  TrustDepth = 1
  MinConfirmations = 1
  MaxOrphans = 2
  PegStartHeight = 1
  PruneInterval = 3
  MaxCrashes = 2
SPECIFICATION FairSpec
PROPERTIES
  Converges
  TrustFallsOnlyForStakers
CHECK_DEADLOCK FALSE
