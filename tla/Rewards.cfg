SPECIFICATION MCSpec
CONSTANTS
  TO_Q64 = 16
  MIN_TICK_INDEX <- MCMinTick
  MAX_TICK_INDEX <- MCMaxTick
  SqrtPrice <- MCSqrtPrice
  FEE_RATE_MUL_VALUE = 10
  MAX_FEE_RATE = 4
  PROTOCOL_FEE_RATE_MUL_VALUE = 4
  MAX_PROTOCOL_FEE_RATE = 2
  TICK_ARRAY_SIZE = 2
  tick_spacing = 2
  NUM_REWARDS = 2
  NumPositions = 2
  DAY_IN_SECONDS = 2
  TokenSupply <- MCSupply
  InitialSqrtPrices = {16}
  PositionRanges <- MCRanges
  LiquidityAmounts = {8}
  SwapRequests <- RewardSwaps
  Timestamps = {0, 1, 3}
  FeeRates = {0}
  ProtocolFeeRates = {0}
  EmissionRates = {12, 40}
  RewardDeposits = {6}
  EnableFlags = {TRUE, FALSE}
  MaxOps = 6
  InitialTickArrays <- MCArrays
CHECK_DEADLOCK FALSE
INVARIANTS
  RewardsWithinEmission
  RewardsInitializedInOrder
PROPERTIES
  DisabledPoolStandsStill
  RewardsNeverForfeited
