\* Blocks of two competing branches arrive in any order; every block is valid.
CONSTANTS
  Genesis = 0
  Null = Null
  NoStake = NoStake
  Tree <- Fork
  Blocks <- MCBlocks
  Prev <- MCPrev
  Chain <- MCChain
  nHeight <- MCHeight
  nChainTrust <- MCTrust
  Outs = {1, 2, 3}
  Prevout <- MCPrevout
  StakeTime <- MCStakeTime
  Invalid = {}
  TrustedStaked = {}
  MaxReorg = 3
  TrustDepth = 20
  MinConfirmations = 1
  MaxOrphans = 2
  PegStartHeight = 1
  PruneInterval = 3
  MaxCrashes = 0
SPECIFICATION CleanSpec
INVARIANTS
  FractionsKept
  HeaviestWins
  OrphansWait
  MainChainIsBest
CHECK_DEADLOCK FALSE
