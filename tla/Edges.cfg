SPECIFICATION MCFairSpec
CONSTANTS
  TO_Q64 = 16
  MIN_TICK_INDEX <- MCMinTick
  MAX_TICK_INDEX <- MCMaxTick
  SqrtPrice <- MCSqrtPrice
  FEE_RATE_MUL_VALUE = 10
  MAX_FEE_RATE = 4
  PROTOCOL_FEE_RATE_MUL_VALUE = 4
  MAX_PROTOCOL_FEE_RATE = 2
  TICK_ARRAY_SIZE = 2
  tick_spacing = 1
  NUM_REWARDS = 1
  NumPositions = 2
  DAY_IN_SECONDS = 2
  TokenSupply <- MCSupply
  InitialSqrtPrices = {4, 16, 64}
  PositionRanges <- EdgeRanges
  LiquidityAmounts = {4}
  SwapRequests <- EdgeSwaps
  Timestamps = {0}
  FeeRates = {1, 5}
  ProtocolFeeRates = {2}
  EmissionRates = {}
  RewardDeposits = {}
  EnableFlags = {}
  MaxOps = 4
  InitialTickArrays <- EdgeArrays
CHECK_DEADLOCK FALSE
INVARIANTS
  LiquidityBook
  PriceMatchesTick
PROPERTIES
  SwapTerminates
