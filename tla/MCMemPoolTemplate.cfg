SPECIFICATION Spec
CONSTANTS
  Txs <- MCTxs
  Vin <- MCVin
  Vout <- MCVout
  BlockOnly <- MCBlockOnly
  Refused <- MCRefused
  Blocks <- MCBlocks
  Genesis <- MCGenesis
  Chain <- MCChain
  nChainTrust <- MCTrust
  Vtx <- MCVtx
  PegIndex <- MCPegIndex
  NextIndex <- MCNextIndex
  PegInterval = 2
  LastCheckpoint = 1
  MaxOrphans = 2
INVARIANT NewBlocksConnect
CHECK_DEADLOCK FALSE
