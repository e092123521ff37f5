\* Refused blocks and restarts: what is on disk after any of them.
CONSTANTS
  Genesis = 0
  Null = Null
  NoStake = NoStake
  Tree <- Uneven
  Blocks <- MCBlocks
  Prev <- MCPrev
  Chain <- MCChain
  nHeight <- MCHeight
  nChainTrust <- MCTrust
  Outs = {1, 2, 3}
  Prevout <- MCPrevout
  StakeTime <- MCStakeTime
  Invalid = {7}
  TrustedStaked = {}
  MaxReorg = 4
  TrustDepth = 20
  MinConfirmations = 1
  MaxOrphans = 2
  PegStartHeight = 1
  PruneInterval = 3
  MaxCrashes = 2
SPECIFICATION CleanSpec
INVARIANTS
  TypeOK
  IndexIsClosed
  TxIndexIsBestChain
  SpentIsBestChain
  MemoryFollowsDisk
PROPERTIES
  ImplementsLedger
CHECK_DEADLOCK FALSE
