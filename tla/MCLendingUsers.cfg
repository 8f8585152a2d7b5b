SPECIFICATION Spec
CONSTANTS
  Reserves = {SOL}
  NoReserve = NoReserve
  Users = {Lender, Borrower}
  Owner = Owner
  Authorities = {Owner, Heir}
  RATE_SCALE = 2
  SLOTS_PER_YEAR = 2
  MAX_U64 = 6
  MAX_U128 = 1000000
  MAX_DEPOSITS_COUNT_IN_RESERVE = 1
  MAX_BORROW_COUNT_IN_RESERVE = 1
  MAX_AGE_SECONDS = 1
  MaxSlot = 3
  SlotSeconds = 1
  Amounts <- MCAmounts
  Messages <- MCMessages
  Configs <- MCConfigs
SYMMETRY Symmetry
INVARIANT TypeOK
 
 
INVARIANT SnapshotsBehind
PROPERTY NothingTakenUnpaid
PROPERTY FrozenWhilePaused
PROPERTY RiskOnlyAfterRefresh
PROPERTY LiquidationsBounded
CHECK_DEADLOCK FALSE
