SPECIFICATION Spec
CONSTANTS
  Txs <- MCTxs
  Vin <- MCVin
  Vout <- MCVout
  BlockOnly <- MCBlockOnly
  Refused <- MCRefused
  Blocks <- MCBlocks
  Genesis <- MCGenesis
  Chain <- MCChain
  nChainTrust <- MCTrust
  Vtx <- MCVtx
  PegIndex <- MCPegIndex
  NextIndex <- MCNextIndex
  PegInterval = 2
  LastCheckpoint = 2
  MaxOrphans = 2
INVARIANTS
  TypeOK
  PoolSpendsOnce
  PoolOutsideChain
  FractionsCurrent
  ResurrectionComplete
  TemplateConnects
CHECK_DEADLOCK FALSE
