SPECIFICATION MCSpec
CONSTANTS
  TO_Q64 = 16
  MIN_TICK_INDEX <- MCMinTick
  MAX_TICK_INDEX <- MCMaxTick
  SqrtPrice <- MCSqrtPrice
  FEE_RATE_MUL_VALUE = 10
  MAX_FEE_RATE = 4
  PROTOCOL_FEE_RATE_MUL_VALUE = 4
  MAX_PROTOCOL_FEE_RATE = 2
  TICK_ARRAY_SIZE = 2
  tick_spacing = 2
  NUM_REWARDS = 1
  NumPositions = 1
  DAY_IN_SECONDS = 2
  TokenSupply <- MCSupply
  InitialSqrtPrices = {16}
  PositionRanges <- MCRanges
  LiquidityAmounts = {8}
  Timestamps = {0}
  FeeRates = {2}
  ProtocolFeeRates = {2}
  EnableFlags = {FALSE}
  InitialTickArrays <- MCArrays
  MintPairs <- MCMints
  OwnerFunds <- MCFunds
  TwoHopRequests <- MCRequests
  MaxTrades = 1
  MaxSteps = 3
CHECK_DEADLOCK FALSE
PROPERTIES
  DisabledPoolIsNotTraded
