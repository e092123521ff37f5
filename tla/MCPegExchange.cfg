CONSTANTS
  PegSize = 4
  Users = {u1, u2}
  Holdings <- TradeHoldings
  Supplies = {1, 2}
  Shifts <- TradeShifts
  Amounts = {1, 2}
  MaxCycle = 2
SPECIFICATION CarefulSpec
SYMMETRY AnyUser
INVARIANTS
  TypeOK
  UpdateSucceeds
  UsersOwnTheBooks
  TradesSucceed
  PoolIsHandedOut
CHECK_DEADLOCK FALSE
