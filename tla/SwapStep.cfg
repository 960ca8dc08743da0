SPECIFICATION MCSpec
CONSTANTS
  TO_Q64 = 16
  MIN_TICK_INDEX <- MCMinTick
  MAX_TICK_INDEX <- MCMaxTick
  SqrtPrice <- MCSqrtPrice
  FEE_RATE_MUL_VALUE = 10
  MAX_FEE_RATE = 4
  PROTOCOL_FEE_RATE_MUL_VALUE = 4
  MAX_PROTOCOL_FEE_RATE = 2
  Liquidities = {0, 1, 5, 8, 60}
  Prices <- MCPrices
  FeeRates = {0, 1, 3}
  Amounts = {1, 2, 5, 11, 15}
  TICK_ARRAY_SIZE = 2
  tick_spacing = 2
  WORD_BITS = 15
  NUM_WORDS = 18
  Windows <- MCWindows
  Bits = {0, 1, 2, 3, 4, 5, 6, 7, 8, 9, 10, 11, 12, 13, 14, 15, 16, 17, 18}
  Mixed = {174762, 349525, 300000}
  Reach = 6
CHECK_DEADLOCK FALSE
INVARIANTS
  PoolFavoured
  FeeNotBelowRate
  NoProfitFromRoundTrip
  SweepSkipsNothing
  InOrderSweepUsesAllArrays
  PricesConvertExactly
PROPERTIES
  NeighboursInProportion
