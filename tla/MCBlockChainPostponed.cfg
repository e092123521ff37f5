\* The last postponed block does not connect.
CONSTANTS
  Genesis = 0
  Null = Null
  NoStake = NoStake
  Tree <- Uneven
  Blocks <- MCBlocks
  Prev <- MCPrev
  Chain <- MCChain
  nHeight <- MCHeight
  nChainTrust <- MCTrust
  Outs = {1, 2, 3}
  Prevout <- MCPrevout
  StakeTime <- MCStakeTime
  Invalid = {8}
  TrustedStaked = {4, 5}
  MaxReorg = 4
  TrustDepth = 1
  MinConfirmations = 1
  MaxOrphans = 2
  PegStartHeight = 1
  PruneInterval = 3
  MaxCrashes = 0
SPECIFICATION Spec
INVARIANT MemoryFollowsDisk
CHECK_DEADLOCK FALSE
