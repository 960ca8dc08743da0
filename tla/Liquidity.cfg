SPECIFICATION TestSpec
CONSTANTS
  TO_Q64 = 32768
  MIN_TICK_INDEX <- MCMinTick
  MAX_TICK_INDEX <- MCMaxTick
  SqrtPrice <- MCSqrtPrice
  FEE_RATE_MUL_VALUE = 10
  MAX_FEE_RATE = 4
  PROTOCOL_FEE_RATE_MUL_VALUE = 4
  MAX_PROTOCOL_FEE_RATE = 2
  NUM_REWARDS = 3
  TICK_LOWER_INDEX <- MCLower
  TICK_UPPER_INDEX <- MCUpper
  BELOW_LOWER_TICK_INDEX <- MCBelow
  ABOVE_UPPER_TICK_INDEX <- MCAbove
  StartGrowths <- MCGrowths
  Emissions <- MCEmissions
  WhirlpoolLiquidities = {4}
  Grosses = {0, 1}
  LiquidityDeltas <- MCDeltas
  FeeIncrements <- MCFees
  Seconds = {0, 1}
  MaxOps = 5
INVARIANT
  AsAsserted
PROPERTIES
  FeesPaidAsAccrued
  RewardsPaidAsAccrued
