SPECIFICATION Spec
CONSTANTS
  Reserves = {SOL}
  NoReserve = NoReserve
  RATE_SCALE = 2
  SLOTS_PER_YEAR = 2
  MAX_U64 = 9
  MAX_U128 = 1000000
  MAX_DEPOSITS_COUNT_IN_RESERVE = 1
  MAX_BORROW_COUNT_IN_RESERVE = 1
  MaxSlot = 2
  MaxDebt = 14
  Amounts <- ManyAmounts
  ReserveStates <- OneState
PROPERTY WithdrawalLeavesCover
