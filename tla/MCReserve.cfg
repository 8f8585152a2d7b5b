SPECIFICATION Spec
CONSTANTS
  RATE_SCALE = 2
  SLOTS_PER_YEAR = 2
  MAX_U64 = 40
  MAX_U128 = 1000000
  MaxSlot = 3
  MaxOutside = 1
  Amounts <- MCAmounts
  Prices <- MCPrices
  Timestamps <- MCTimestamps
  Configs <- MCConfigs
INVARIANT TypeOK
INVARIANT SharesBacked
INVARIANT ClaimsCovered
INVARIANT RoundTripNeverGains
PROPERTY NoDilution
PROPERTY DepositorsKeepTheirShare
PROPERTY InterestChargedOnce
PROPERTY ImplementsShareVault
