SPECIFICATION PrivateSpec
CONSTANTS
  Reserves = {SOL}
  NoReserve = NoReserve
  Users = {Borrower}
  Owner = Owner
  Authorities = {Owner}
  RATE_SCALE = 2
  SLOTS_PER_YEAR = 2
  MAX_U64 = 6
  MAX_U128 = 1000000
  MAX_DEPOSITS_COUNT_IN_RESERVE = 1
  MAX_BORROW_COUNT_IN_RESERVE = 1
  MAX_AGE_SECONDS = 1
  MaxSlot = 2
  SlotSeconds = 1
  MaxTokens = 1
  WholeToken = 2
  Offsets = {1}
  Unreadable = Unreadable
  NoPrices = NoPrices
  NoOutput = NoOutput
  Failure = Failure
  Amounts <- MCAmounts
  Messages <- MCMessages
  Configs <- MCConfigs
  Prices <- MCPrices
 
INVARIANT SnapshotsBehind
PROPERTY FrozenWhilePaused
PROPERTY DebtOnFreshValues
PROPERTY ImplementsReserves
PROPERTY ImplementsPositions
