SPECIFICATION WithdrawSpec
CONSTANTS
  PegSize = 3
  Null = Null
  Transactions = {}
  Supplies = {1, 2}
  Burn = 4
  CoinSets <- SomeCoins
  Books <- SomeBooks
  Balances <- SomeBalances
  Levels <- SomeLevels
  Amounts = {14, 18, 20}
  Payee = 3
  FeeRet = 12
  FeeBase = 1
  FeePerCoin = 1
  FreezeValue = 1
  MaxInputs <- SomeMaxInputs
  MaxWithdrawals = 2
INVARIANT
  ChangeIsKnown
CHECK_DEADLOCK FALSE
