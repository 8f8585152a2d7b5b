SPECIFICATION HistorySpec
CONSTANTS
  Reserves = {SOL}
  NoReserve = NoReserve
  MaxTokens = 2
  Offsets = {1, 2}
  Prices <- MCPrices
  Unreadable = Unreadable
  NoPrices = NoPrices
  NoOutput = NoOutput
  Failure = Failure
  MaxAdd = 1
  OwnerWaits = TRUE
PROPERTY FreshCheckPerLiquidation
