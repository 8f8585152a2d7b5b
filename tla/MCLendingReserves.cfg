SPECIFICATION Spec
CONSTANTS
  Reserves = {SOL, USDC}
  NoReserve = NoReserve
  Users = {Borrower}
  Owner = Owner
  Authorities = {Owner}
  RATE_SCALE = 2
  SLOTS_PER_YEAR = 2
  MAX_U64 = 6
  MAX_U128 = 1000000
  MAX_DEPOSITS_COUNT_IN_RESERVE = 1
  MAX_BORROW_COUNT_IN_RESERVE = 1
  MAX_AGE_SECONDS = 1
  MaxSlot = 2
  SlotSeconds = 1
  Amounts <- MCAmounts
  Messages <- MCMessages
  Configs <- MCConfigs
SYMMETRY Symmetry
 
INVARIANT SnapshotsBehind
PROPERTY RiskOnlyAfterRefresh
PROPERTY ImplementsReserves
