---------------------------- MODULE WhirlpoolProofs ----------------------------
(***************************************************************************)
(* The invariant of a pool, for every value of the constants.              *)
(*                                                                         *)
(* A swap moves the price from tick to tick, and is safe because the tick  *)
(* it heads for is on the right side of the current price.  That needs the *)
(* current tick and price to agree after every iteration, and the arrays   *)
(* it searches to be arrays of the pool, so the invariant is:              *)
(*   TypeOK           every field fits its word;                           *)
(*   PoolInv          the pool's tick and price agree, its arrays are      *)
(*                    valid;                                               *)
(*   SwapInv          so do the tick and price the swap loop has reached;  *)
(*   SwapWithinLimits the loop has not gone beyond what was asked.         *)
(* Two more parts are what those who administer a pool rely on: its        *)
(* rewards come in order, and while it is disabled it stands still.        *)
(*                                                                         *)
(* The last part is the liquidity book, for every number of positions: the *)
(* account's and the running swap's liquidity and ticks are sums over the  *)
(* positions.  Sum is a recursive function on 0 .. NumPositions, so that   *)
(* facts about it are proved by induction on the positions counted so far. *)
(***************************************************************************)
EXTENDS WhirlpoolProperties, MathProofs

PoolInv ==
  /\ TickHoldsPrice(tick_current_index, sqrt_price)
  /\ \A start \in tick_arrays : check_is_valid_start_tick(start)

SwapInv ==
  ~Idle =>
    /\ \A i \in 1 .. Len(swap.request.arrays) : check_is_valid_start_tick(swap.request.arrays[i])
    /\ swap.request.sqrt_price_limit \in PriceRange
    /\ swap.curr_array_index # 0
    /\ swap.timestamp >= reward_last_updated_timestamp
    /\ TickHoldsPrice(swap.curr_tick_index, swap.curr_sqrt_price)

IInv == TypeOK /\ PoolInv /\ SwapInv /\ SwapWithinLimits

-----------------------------------------------------------------------------
(* Positions *)

\* A blank position is a position.
LEMMA BlankPositionType ==
  ASSUME NEW state \in {"none", "open", "closed"}, NEW lower \in Int, NEW upper \in Int
  PROVE  BlankPosition(state, lower, upper) \in Position
<1>1. 0 \in U64 /\ 0 \in U128
  BY Widths DEF U64, U128
<1> QED
  BY <1>1 DEF BlankPosition, Position

\* Settling a position and changing its liquidity yields a position.
LEMMA PositionUpdateType ==
  ASSUME NEW position \in Position, NEW delta \in Int,
         NEW fee_growths \in [Token -> U128], NEW reward_growths \in [RewardIndex -> U128],
         add_liquidity_delta(position.liquidity, delta) # Err
  PROVE  next_position_modify_liquidity_update(position, delta, fee_growths, reward_growths)
           \in Position
<1>1. U128 \subseteq Int /\ U64 \subseteq Int
  BY Widths
<1> DEFINE new_liquidity == add_liquidity_delta(position.liquidity, delta)
           owed == [x \in Token |->
                      WrapU64(position.fee_owed[x]
                              + GrowthEarned(position.liquidity, fee_growths[x],
                                             position.fee_growth_checkpoint[x]))]
           rewards_owed == [i \in RewardIndex |->
                      WrapU64(position.amount_owed[i]
                              + GrowthEarned(position.liquidity, reward_growths[i],
                                             position.growth_inside_checkpoint[i]))]
<1>2. position.liquidity \in U128 /\ position.liquidity \in Int
  BY <1>1 DEF Position
<1>3. new_liquidity \in U128
  BY <1>2, AddLiquidityType
<1>4. ASSUME NEW a \in U64, NEW b \in U64 PROVE WrapU64(a + b) \in U64
  <2>1. a + b \in Int
    BY <1>1
  <2> QED
    BY <2>1, Conversions
<1>5. owed \in [Token -> U64]
  <2>1. ASSUME NEW x \in Token
        PROVE  WrapU64(position.fee_owed[x]
                 + GrowthEarned(position.liquidity, fee_growths[x],
                                position.fee_growth_checkpoint[x])) \in U64
    <3>1. position.fee_owed[x] \in U64 /\ position.fee_growth_checkpoint[x] \in U128
      BY DEF Position
    <3>2. GrowthEarned(position.liquidity, fee_growths[x],
                       position.fee_growth_checkpoint[x]) \in U64
      BY <1>2, <3>1, GrowthEarnedType
    <3> QED
      BY <1>4, <3>1, <3>2
  <2> QED
    BY <2>1
<1>6. rewards_owed \in [RewardIndex -> U64]
  <2>1. ASSUME NEW i \in RewardIndex
        PROVE  WrapU64(position.amount_owed[i]
                 + GrowthEarned(position.liquidity, reward_growths[i],
                                position.growth_inside_checkpoint[i])) \in U64
    <3>1. position.amount_owed[i] \in U64 /\ position.growth_inside_checkpoint[i] \in U128
      BY DEF Position
    <3>2. GrowthEarned(position.liquidity, reward_growths[i],
                       position.growth_inside_checkpoint[i]) \in U64
      BY <1>2, <3>1, GrowthEarnedType
    <3> QED
      BY <1>4, <3>1, <3>2
  <2> QED
    BY <2>1
<1>7. next_position_modify_liquidity_update(position, delta, fee_growths, reward_growths)
        = [position EXCEPT !.liquidity = new_liquidity, !.fee_growth_checkpoint = fee_growths,
                           !.fee_owed = owed, !.growth_inside_checkpoint = reward_growths,
                           !.amount_owed = rewards_owed]
  BY DEF next_position_modify_liquidity_update
<1> HIDE DEF new_liquidity, owed, rewards_owed
<1> QED
  BY <1>3, <1>5, <1>6, <1>7 DEF Position

-----------------------------------------------------------------------------
(* The actions on a pool that no swap has locked.  What most of them change *)
(* does not matter to PoolInv, and SwapInv and SwapWithinLimits only speak *)
(* of a running swap.                                                      *)

\* Whatever keeps the types, the price and the arrays of an idle pool keeps the
\* invariant.
LEMMA IdleStep ==
  ASSUME IInv, TypeOK', Idle, swap' = swap,
         UNCHANGED <<sqrt_price, tick_current_index, tick_arrays>>
  PROVE  IInv'
BY DEF IInv, PoolInv, SwapInv, SwapWithinLimits, Idle, TickHoldsPrice

\* The growths inside the range of a position whose arrays exist are words.
LEMMA PositionGrowths ==
  ASSUME TypeOK, NEW position \in Position, HasTickArrays(position),
         NEW infos \in [RewardIndex -> WhirlpoolRewardInfo]
  PROVE  /\ position.tick_lower_index \in UsableTicks
         /\ position.tick_upper_index \in UsableTicks
         /\ FeeGrowthsInside(position) \in [Token -> U128]
         /\ RewardGrowthsInside(position, infos) \in [RewardIndex -> U128]
<1>1. position.tick_lower_index \in Int /\ position.tick_upper_index \in Int
  BY DEF Position
<1>2. /\ position.tick_lower_index \in UsableTicks
      /\ position.tick_upper_index \in UsableTicks
  BY <1>1, TickRangeAssumption
  DEF HasTickArrays, HoldsTick, check_is_usable_tick, check_is_out_of_bounds, UsableTicks,
      TickIndices
<1>3. /\ ticks[position.tick_lower_index] \in Tick
      /\ ticks[position.tick_upper_index] \in Tick
      /\ tick_current_index \in Int /\ fee_growth_global \in [Token -> U128]
  BY <1>2 DEF TypeOK
<1> QED
  BY <1>1, <1>2, <1>3, GrowthsInsideType DEF FeeGrowthsInside, RewardGrowthsInside

\* The accumulators at a later time are words.
LEMMA RewardInfosAtType ==
  ASSUME TypeOK, NEW timestamp \in U64, timestamp >= reward_last_updated_timestamp
  PROVE  RewardInfosAt(timestamp) \in [RewardIndex -> WhirlpoolRewardInfo]
BY WordsAreIntegers, RewardInfosType DEF TypeOK, RewardInfosAt

\* A time that is not before the last update is at or after it.
LEMMA NotBefore ==
  ASSUME TypeOK, NEW timestamp \in U64, ~(timestamp < reward_last_updated_timestamp)
  PROVE  timestamp >= reward_last_updated_timestamp
<1>1. timestamp \in Int /\ reward_last_updated_timestamp \in Int
  BY Widths DEF TypeOK
<1> QED
  BY <1>1

\* What a change of a position's liquidity writes has the right types.
LEMMA ModifyLiquidityType ==
  ASSUME TypeOK, NEW p \in PositionIds, NEW delta \in Int, NEW timestamp \in U64,
         ModifyLiquidity(p, delta, timestamp)
  PROVE  /\ positions' \in [PositionIds -> Position]
         /\ ticks' \in [UsableTicks -> Tick]
         /\ reward_infos' \in [RewardIndex -> WhirlpoolRewardInfo]
         /\ reward_last_updated_timestamp' \in U64
         /\ liquidity' \in U128
<1> DEFINE position == positions[p]
           infos    == RewardInfosAt(timestamp)
           bounds   == {position.tick_lower_index, position.tick_upper_index}
<1>1. /\ ~ModifyLiquidityFails(position, delta, timestamp)
      /\ positions' = [positions EXCEPT ![p] = PositionUpdate(position, delta, infos)]
      /\ ticks' = [t \in UsableTicks |->
                     IF t \in bounds THEN TickUpdate(position, t, delta, infos) ELSE ticks[t]]
      /\ reward_infos' = infos
      /\ reward_last_updated_timestamp' = timestamp
      /\ liquidity' = NextLiquidity(position, delta)
  BY DEF ModifyLiquidity
<1>2. position \in Position
  BY DEF TypeOK
<1>3. infos \in [RewardIndex -> WhirlpoolRewardInfo]
  BY <1>1, NotBefore, RewardInfosAtType DEF ModifyLiquidityFails
<1> HIDE DEF position, infos
<1>4. /\ HasTickArrays(position)
      /\ NextLiquidity(position, delta) # Err
      /\ add_liquidity_delta(position.liquidity, delta) # Err
      /\ ~TickUpdateFails(ticks[position.tick_lower_index], delta, FALSE)
      /\ ~TickUpdateFails(ticks[position.tick_upper_index], delta, TRUE)
  BY <1>1 DEF ModifyLiquidityFails
<1>5. positions' \in [PositionIds -> Position]
  <2>1. PositionUpdate(position, delta, infos) \in Position
    BY <1>2, <1>3, <1>4, PositionGrowths, PositionUpdateType DEF PositionUpdate
  <2> QED
    BY <1>1, <2>1 DEF TypeOK
<1>6. liquidity' \in U128
  <2>1. liquidity \in Int
    BY Widths DEF TypeOK
  <2> QED
    BY <1>1, <1>4, <2>1, AddLiquidityType DEF NextLiquidity, next_whirlpool_liquidity, TypeOK
<1>7. ticks' \in [UsableTicks -> Tick]
  <2>1. ASSUME NEW t \in UsableTicks, t \in bounds
        PROVE  TickUpdate(position, t, delta, infos) \in Tick
    <3>1. ticks[t] \in Tick /\ t \in Int /\ tick_current_index \in Int
            /\ fee_growth_global \in [Token -> U128]
      BY ArrayTypes DEF TypeOK
    <3> DEFINE is_upper == t = position.tick_upper_index
    <3>2. is_upper \in BOOLEAN /\ ~TickUpdateFails(ticks[t], delta, is_upper)
      <4>1. CASE t = position.tick_upper_index
        BY <1>4, <4>1
      <4>2. CASE t # position.tick_upper_index
        BY <1>4, <2>1, <4>2
      <4> QED
        BY <4>1, <4>2
    <3>3. TickUpdate(position, t, delta, infos)
            = next_tick_modify_liquidity_update(ticks[t], t, tick_current_index,
                fee_growth_global, infos, delta, is_upper)
      BY DEF TickUpdate
    <3> HIDE DEF is_upper
    <3> QED
      BY <1>3, <3>1, <3>2, <3>3, ModifyTickType
  <2> HIDE DEF bounds
  <2> QED
    BY <1>1, <2>1 DEF TypeOK
<1> QED
  BY <1>1, <1>3, <1>5, <1>6, <1>7

\* The token program keeps balances within a u64, and the supply.
LEMMA TransferTypes ==
  ASSUME TypeOK, NEW amounts \in [Token -> U64],
         TransferFromOwner(amounts) \/ TransferToOwner(amounts)
  PROVE  vault' \in [Token -> U64]
<1>1. \A x \in Token : /\ vault[x] \in U64 /\ vault[x] \in Int
                       /\ amounts[x] \in Int /\ 0 <= amounts[x]
                       /\ TokenSupply[x] \in U64
  <2> TAKE x \in Token
  <2>1. vault[x] \in U64 /\ amounts[x] \in U64 /\ TokenSupply[x] \in U64
    BY PoolAssumption DEF TypeOK
  <2> QED
    BY <2>1, Widths DEF U64
<1>2. CASE TransferFromOwner(amounts)
  <2>1. \A x \in Token : vault[x] + amounts[x] \in U64
    BY <1>1, <1>2, Widths DEF TransferFromOwner, U64
  <2> QED
    BY <1>2, <2>1 DEF TransferFromOwner
<1>3. CASE TransferToOwner(amounts)
  <2>1. \A x \in Token : vault[x] - amounts[x] \in U64
    BY <1>1, <1>3, Widths DEF TransferToOwner, U64
  <2> QED
    BY <1>3, <2>1 DEF TransferToOwner
<1> QED
  BY <1>2, <1>3

\* What a change of liquidity costs or yields is a u64 of each token, unless it
\* is refused.
LEMMA TokenDeltasType ==
  ASSUME IInv, NEW p \in PositionIds, HasTickArrays(positions[p]),
         NEW amount \in U128, NEW delta \in {amount, -amount},
         \A x \in Token : TokenDeltas(p, delta)[x] # Err
  PROVE  TokenDeltas(p, delta) \in [Token -> U64]
<1> DEFINE position == positions[p]
           lower    == sqrt_price_from_tick_index(position.tick_lower_index)
           upper    == sqrt_price_from_tick_index(position.tick_upper_index)
           size     == IF delta < 0 THEN -delta ELSE delta
           round_up == delta > 0
           amounts  == [x \in Token |->
              IF x = "a"
              THEN IF tick_current_index < position.tick_lower_index
                   THEN get_amount_delta_a(lower, upper, size, round_up)
                   ELSE IF tick_current_index < position.tick_upper_index
                   THEN get_amount_delta_a(sqrt_price, upper, size, round_up)
                   ELSE 0
              ELSE IF tick_current_index < position.tick_lower_index THEN 0
                   ELSE IF tick_current_index < position.tick_upper_index
                   THEN get_amount_delta_b(lower, sqrt_price, size, round_up)
                   ELSE get_amount_delta_b(lower, upper, size, round_up)]
<1>1. TokenDeltas(p, delta) = amounts
  BY DEF TokenDeltas, calculate_liquidity_token_deltas
<1>2. sqrt_price \in PriceRange
  BY DEF IInv, PoolInv, TickHoldsPrice, PriceRange
<1>3. lower \in PriceRange /\ upper \in PriceRange
  <2>1. /\ position.tick_lower_index \in TickIndices
        /\ position.tick_upper_index \in TickIndices
    <3>1. position \in Position /\ reward_infos \in [RewardIndex -> WhirlpoolRewardInfo] /\ TypeOK
      BY DEF IInv, TypeOK
    <3> QED
      BY <3>1, PositionGrowths, ArrayTypes
  <2> QED
    BY <2>1, PriceBounds DEF sqrt_price_from_tick_index
<1>4. size \in U128
  <2>1. amount \in Int /\ 0 <= amount
    BY Widths
  <2>2. size = amount
    BY <2>1
  <2> QED
    BY <2>2
<1>5. round_up \in BOOLEAN /\ 0 \in U64
  BY Widths DEF U64
<1> HIDE DEF lower, upper, size, round_up
<1>6. /\ get_amount_delta_a(lower, upper, size, round_up) \in U64 \cup {Err}
      /\ get_amount_delta_a(sqrt_price, upper, size, round_up) \in U64 \cup {Err}
      /\ get_amount_delta_b(lower, sqrt_price, size, round_up) \in U64 \cup {Err}
      /\ get_amount_delta_b(lower, upper, size, round_up) \in U64 \cup {Err}
  BY <1>2, <1>3, <1>4, <1>5, DeltaTypes
<1>7. amounts \in [Token -> U64 \cup {Err}]
  BY <1>5, <1>6
<1> HIDE DEF amounts
<1> QED
  BY <1>1, <1>7

-----------------------------------------------------------------------------
(* One lemma per group of actions. *)

\* A pool that has just been initialized satisfies the invariant, whichever of its
\* arrays exist.
LEMMA InitializePoolStep ==
  ASSUME InitializePool, tick_arrays \subseteq Int,
         \A start \in tick_arrays : check_is_valid_start_tick(start)
  PROVE  IInv
<1>1. /\ 0 \in U64 /\ 0 \in U128 /\ 0 \in Int /\ U128 \subseteq Int
  BY Widths DEF U64, U128
<1>2. DefaultTick \in Tick /\ BlankPosition("none", 0, 0) \in Position
  BY <1>1, BlankPositionType DEF DefaultTick, Tick
<1>3. sqrt_price \in PriceRange /\ sqrt_price \in U128
  BY PoolAssumption, <1>1 DEF InitializePool, PriceRange
<1> DEFINE t == tick_index_from_sqrt_price(sqrt_price)
<1>4. /\ t \in TickIndices /\ SqrtPrice[t] <= sqrt_price
      /\ t < MAX_TICK_INDEX => sqrt_price < SqrtPrice[t + 1]
  BY <1>3, TickOfPrice
<1>5. tick_current_index = t
  BY DEF InitializePool
<1> HIDE DEF t
<1>6. TickHoldsPrice(t, sqrt_price)
  <2>1. t \in (MIN_TICK_INDEX - 1) .. MAX_TICK_INDEX
    BY <1>4, TickRangeAssumption DEF TickIndices
  <2>2. t < MAX_TICK_INDEX => sqrt_price <= SqrtPrice[t + 1]
    <3>1. SUFFICES ASSUME t < MAX_TICK_INDEX PROVE sqrt_price <= SqrtPrice[t + 1]
      OBVIOUS
    <3>2. t + 1 \in TickIndices
      BY <1>4, <3>1, TickRangeAssumption DEF TickIndices
    <3>3. SqrtPrice[t + 1] \in Int /\ sqrt_price \in Int
      BY <1>1, <1>3, <3>2, PriceBounds
    <3> QED
      BY <1>4, <3>1, <3>3
  <2> QED
    BY <1>3, <1>4, <2>1, <2>2 DEF TickHoldsPrice, PriceRange
<1>7. TypeOK
  <2>1. tick_current_index \in Int /\ tick_arrays \subseteq Int
    BY <1>4, <1>5, TickRangeAssumption DEF TickIndices
  <2>2. /\ is_enabled \in BOOLEAN /\ fee_rate \in 0 .. MAX_FEE_RATE
        /\ protocol_fee_rate \in 0 .. MAX_PROTOCOL_FEE_RATE
    BY PoolAssumption, FeeRateAssumption DEF InitializePool
  <2>3. reward_infos \in [RewardIndex -> WhirlpoolRewardInfo]
    BY <1>1 DEF InitializePool, WhirlpoolRewardInfo
  <2> QED
    BY <1>1, <1>2, <1>3, <2>1, <2>2, <2>3 DEF InitializePool, TypeOK
<1>8. Idle /\ PoolInv
  BY <1>5, <1>6 DEF InitializePool, Idle, PoolInv
<1> QED
  BY <1>7, <1>8 DEF IInv, SwapInv, SwapWithinLimits

\* And so does an initial state.
LEMMA InitStep ==
  ASSUME Init PROVE IInv
BY InitializePoolStep DEF Init

\* The instructions on a position keep it (open_position.rs, increase_liquidity.rs,
\* decrease_liquidity.rs, update_fees_and_rewards.rs, collect_fees.rs,
\* collect_reward.rs, close_position.rs).
LEMMA PositionStep ==
  ASSUME IInv, PositionNext PROVE IInv'
<1> USE DEF config, curve, fees, rewards
<1>1. TypeOK
  BY DEF IInv
<1>2. PICK p \in PositionIds :
        \/ \E range \in PositionRanges : OpenPosition(p, range[1], range[2])
        \/ \E amount \in LiquidityAmounts, timestamp \in Timestamps :
             \/ IncreaseLiquidity(p, amount, timestamp)
             \/ DecreaseLiquidity(p, amount, timestamp)
        \/ \E timestamp \in Timestamps : UpdateFeesAndRewards(p, timestamp)
        \/ CollectFees(p)
        \/ \E i \in RewardIndex : CollectReward(p, i)
        \/ ClosePosition(p)
  BY DEF PositionNext
<1>3. positions[p] \in Position
  BY <1>1 DEF TypeOK
<1>4. ASSUME NEW range \in PositionRanges, OpenPosition(p, range[1], range[2])
      PROVE  IInv'
  <2>1. range[1] \in Int /\ range[2] \in Int
    BY PoolAssumption
  <2>2. BlankPosition("open", range[1], range[2]) \in Position
    BY <2>1, BlankPositionType
  <2>3. TypeOK'
    BY <1>1, <1>4, <2>2 DEF OpenPosition, TypeOK, Idle, SwapState
  <2> QED
    BY <1>4, <2>3, IdleStep DEF OpenPosition
<1>5. ASSUME NEW amount \in LiquidityAmounts, NEW timestamp \in Timestamps,
             \/ IncreaseLiquidity(p, amount, timestamp)
             \/ DecreaseLiquidity(p, amount, timestamp)
      PROVE  IInv'
  <2>1. amount \in U128 /\ amount \in Int /\ timestamp \in U64
    BY PoolAssumption, Widths
  <2>2. PICK delta \in {amount, -amount} :
          /\ Idle
          /\ ModifyLiquidity(p, delta, timestamp)
          /\ \A x \in Token : TokenDeltas(p, delta)[x] # Err
          /\ TransferFromOwner(TokenDeltas(p, delta)) \/ TransferToOwner(TokenDeltas(p, delta))
          /\ UNCHANGED <<config, sqrt_price, tick_current_index, fees, tick_arrays,
                         reward_vault, swap>>
    BY <1>5 DEF IncreaseLiquidity, DecreaseLiquidity, convert_to_liquidity_delta
  <2>3. delta \in Int /\ HasTickArrays(positions[p])
    <3>1. delta \in Int
      BY <2>1
    <3> QED
      BY <2>2, <3>1 DEF ModifyLiquidity, ModifyLiquidityFails
  <2>4. /\ positions' \in [PositionIds -> Position]
        /\ ticks' \in [UsableTicks -> Tick]
        /\ reward_infos' \in [RewardIndex -> WhirlpoolRewardInfo]
        /\ reward_last_updated_timestamp' \in U64
        /\ liquidity' \in U128
    BY <1>1, <2>1, <2>2, <2>3, ModifyLiquidityType
  <2>5. vault' \in [Token -> U64]
    BY <1>1, <2>1, <2>2, <2>3, TokenDeltasType, TransferTypes
  <2>6. TypeOK'
    BY <1>1, <2>2, <2>4, <2>5 DEF TypeOK, Idle
  <2> QED
    BY <2>2, <2>6, IdleStep
<1>6. ASSUME NEW timestamp \in Timestamps, UpdateFeesAndRewards(p, timestamp)
      PROVE  IInv'
  <2> DEFINE infos == RewardInfosAt(timestamp)
  <2>1. timestamp \in U64 /\ 0 \in Int
    BY PoolAssumption
  <2>2. /\ HasTickArrays(positions[p]) /\ add_liquidity_delta(positions[p].liquidity, 0) # Err
        /\ ~(timestamp < reward_last_updated_timestamp)
    BY <1>6 DEF UpdateFeesAndRewards, ModifyLiquidityFails
  <2>3. infos \in [RewardIndex -> WhirlpoolRewardInfo]
    BY <1>1, <2>1, <2>2, NotBefore, RewardInfosAtType
  <2>4. PositionUpdate(positions[p], 0, infos) \in Position
    <3> HIDE DEF infos
    <3> QED
      BY <1>1, <1>3, <2>1, <2>2, <2>3, PositionGrowths, PositionUpdateType DEF PositionUpdate
  <2>5. TypeOK'
    <3>1. /\ positions' = [positions EXCEPT ![p] = PositionUpdate(positions[p], 0, infos)]
          /\ reward_infos' = infos /\ reward_last_updated_timestamp' = timestamp
          /\ Idle
          /\ UNCHANGED <<config, curve, fees, tick_arrays, ticks, vault, reward_vault, swap>>
      BY <1>6 DEF UpdateFeesAndRewards
    <3> HIDE DEF infos
    <3> QED
      BY <1>1, <2>1, <2>3, <2>4, <3>1 DEF TypeOK, Idle
  <2> QED
    BY <1>6, <2>5, IdleStep DEF UpdateFeesAndRewards
<1>7. ASSUME CollectFees(p)
      PROVE  IInv'
  <2>1. positions[p].fee_owed \in [Token -> U64] /\ 0 \in U64
    BY <1>3, Widths DEF Position, U64
  <2>2. vault' \in [Token -> U64]
    BY <1>1, <1>7, <2>1, TransferTypes DEF CollectFees
  <2>3. [positions[p] EXCEPT !.fee_owed = [x \in Token |-> 0]] \in Position
    BY <1>3, <2>1 DEF Position
  <2>4. positions' \in [PositionIds -> Position]
    <3>1. positions' = [positions EXCEPT ![p] = [positions[p] EXCEPT !.fee_owed = [x \in Token |-> 0]]]
      BY <1>7 DEF CollectFees
    <3> QED
      BY <1>1, <2>3, <3>1 DEF TypeOK
  <2>5. TypeOK'
    BY <1>1, <1>7, <2>2, <2>4 DEF CollectFees, TypeOK, Idle
  <2> QED
    BY <1>7, <2>5, IdleStep DEF CollectFees
<1>8. ASSUME NEW i \in RewardIndex, CollectReward(p, i)
      PROVE  IInv'
  <2> DEFINE owed == positions[p].amount_owed[i]
             paid == CollectedReward(owed, reward_vault[i])
  <2>1. owed \in U64 /\ reward_vault[i] \in U64
    BY <1>1, <1>3 DEF Position, TypeOK
  <2>2. owed - paid \in U64 /\ reward_vault[i] - paid \in U64
    <3>1. owed \in Nat /\ reward_vault[i] \in Nat
      BY <2>1, Widths
    <3> HIDE DEF owed
    <3>2. /\ paid \in Nat /\ owed - paid \in Nat /\ owed - paid <= owed
          /\ reward_vault[i] - paid \in Nat /\ reward_vault[i] - paid <= reward_vault[i]
      BY <3>1 DEF CollectedReward
    <3> HIDE DEF paid
    <3> QED
      BY <2>1, <3>1, <3>2, Widths DEF U64
  <2>3. [positions[p] EXCEPT !.amount_owed[i] = owed - paid] \in Position
    <3> HIDE DEF paid
    <3> QED
      BY <1>3, <2>2 DEF Position
  <2>4. /\ positions' = [positions EXCEPT ![p] = [positions[p] EXCEPT !.amount_owed[i] = owed - paid]]
        /\ reward_vault' = [reward_vault EXCEPT ![i] = reward_vault[i] - paid]
        /\ Idle
        /\ UNCHANGED <<config, curve, fees, rewards, tick_arrays, ticks, vault, swap>>
    BY <1>8, <1>1 DEF CollectReward, TypeOK
  <2> HIDE DEF owed, paid
  <2>5. TypeOK'
    BY <1>1, <2>2, <2>3, <2>4 DEF TypeOK, Idle
  <2> QED
    BY <2>4, <2>5, IdleStep
<1>9. ASSUME ClosePosition(p)
      PROVE  IInv'
  <2>1. BlankPosition("closed", 0, 0) \in Position
    BY BlankPositionType
  <2>2. TypeOK'
    BY <1>1, <1>9, <2>1 DEF ClosePosition, TypeOK, Idle
  <2> QED
    BY <1>9, <2>2, IdleStep DEF ClosePosition
<1> QED
  BY <1>2, <1>4, <1>5, <1>6, <1>7, <1>8, <1>9

\* The instructions on the rewards keep it (initialize_reward.rs,
\* set_reward_emissions.rs).
LEMMA RewardStep ==
  ASSUME IInv, RewardNext PROVE IInv'
<1> USE DEF config, curve, fees, rewards
<1>1. TypeOK
  BY DEF IInv
<1>2. PICK i \in RewardIndex :
        \/ InitializeReward(i)
        \/ \E amount \in RewardDeposits : DepositReward(i, amount)
        \/ \E e \in EmissionRates, timestamp \in Timestamps : SetRewardEmissions(i, e, timestamp)
  BY DEF RewardNext
<1>3. reward_infos[i] \in WhirlpoolRewardInfo
  BY <1>1 DEF TypeOK
<1>4. ASSUME InitializeReward(i)
      PROVE  IInv'
  <2>1. [reward_infos[i] EXCEPT !.initialized = TRUE] \in WhirlpoolRewardInfo
    BY <1>3 DEF WhirlpoolRewardInfo
  <2>2. reward_infos' \in [RewardIndex -> WhirlpoolRewardInfo]
    <3>1. reward_infos' = [reward_infos EXCEPT ![i] = [reward_infos[i] EXCEPT !.initialized = TRUE]]
      BY <1>4 DEF InitializeReward
    <3> QED
      BY <1>1, <2>1, <3>1 DEF TypeOK
  <2>3. TypeOK'
    BY <1>1, <1>4, <2>2 DEF InitializeReward, TypeOK, Idle
  <2> QED
    BY <1>4, <2>3, IdleStep DEF InitializeReward
<1>5. ASSUME NEW amount \in RewardDeposits, DepositReward(i, amount)
      PROVE  IInv'
  <2>1. TypeOK'
    BY <1>1, <1>5 DEF DepositReward, TypeOK, Idle
  <2> QED
    BY <1>5, <2>1, IdleStep DEF DepositReward
<1>6. ASSUME NEW e \in EmissionRates, NEW timestamp \in Timestamps,
             SetRewardEmissions(i, e, timestamp)
      PROVE  IInv'
  <2> DEFINE infos == RewardInfosAt(timestamp)
  <2>1. e \in U128 /\ timestamp \in U64
    BY PoolAssumption
  <2>2. infos \in [RewardIndex -> WhirlpoolRewardInfo]
    BY <1>1, <1>6, <2>1, RewardInfosAtType DEF SetRewardEmissions
  <2>3. /\ reward_infos' = [infos EXCEPT ![i].emissions_per_second_x64 = e]
        /\ reward_last_updated_timestamp' = timestamp
        /\ Idle
        /\ UNCHANGED <<config, curve, fees, tick_arrays, ticks, positions, vault, reward_vault, swap>>
    BY <1>6 DEF SetRewardEmissions
  <2> HIDE DEF infos
  <2>4. [infos[i] EXCEPT !.emissions_per_second_x64 = e] \in WhirlpoolRewardInfo
    BY <2>1, <2>2 DEF WhirlpoolRewardInfo
  <2>5. reward_infos' \in [RewardIndex -> WhirlpoolRewardInfo]
    <3>1. reward_infos' = [infos EXCEPT ![i] = [infos[i] EXCEPT !.emissions_per_second_x64 = e]]
      BY <2>3
    <3> QED
      BY <2>2, <2>4, <3>1
  <2>6. TypeOK'
    BY <1>1, <2>1, <2>3, <2>5 DEF TypeOK, Idle
  <2> QED
    BY <2>3, <2>6, IdleStep
<1> QED
  BY <1>2, <1>4, <1>5, <1>6

\* The instructions on the pool itself keep it (set_fee_rate.rs and the like,
\* collect_protocol_fees.rs, initialize_tick_array.rs).
LEMMA PoolStep ==
  ASSUME IInv,
         \/ ConfigNext \/ CollectProtocolFees
         \/ \E start \in MIN_ARRAY_START .. MAX_TICK_INDEX : InitializeTickArray(start)
  PROVE  IInv'
<1> USE DEF config, curve, fees, rewards
<1>1. TypeOK
  BY DEF IInv
<1>2. CASE ConfigNext
  <2>1. /\ Idle
        /\ is_enabled' \in BOOLEAN
        /\ fee_rate' \in 0 .. MAX_FEE_RATE
        /\ protocol_fee_rate' \in 0 .. MAX_PROTOCOL_FEE_RATE
        /\ UNCHANGED <<curve, fees, rewards, tick_arrays, ticks, positions, vault, reward_vault,
                       swap>>
    <3>1. CASE \E flag \in EnableFlags : SetEnableFlag(flag)
      BY <1>1, <3>1, PoolAssumption DEF SetEnableFlag, TypeOK
    <3>2. CASE \E rate \in FeeRates : SetFeeRate(rate)
      BY <1>1, <3>2, PoolAssumption, FeeRateAssumption DEF SetFeeRate, TypeOK
    <3>3. CASE \E rate \in ProtocolFeeRates : SetProtocolFeeRate(rate)
      BY <1>1, <3>3, PoolAssumption, FeeRateAssumption DEF SetProtocolFeeRate, TypeOK
    <3> QED
      BY <1>2, <3>1, <3>2, <3>3 DEF ConfigNext
  <2>2. TypeOK'
    BY <1>1, <2>1 DEF TypeOK, Idle
  <2> QED
    BY <2>1, <2>2, IdleStep
<1>3. CASE CollectProtocolFees
  <2>1. vault' \in [Token -> U64]
    BY <1>1, <1>3, TransferTypes DEF CollectProtocolFees, TypeOK
  <2>2. protocol_fee_owed' \in [Token -> U64]
    BY <1>3, Widths DEF CollectProtocolFees, U64
  <2>3. TypeOK'
    BY <1>1, <1>3, <2>1, <2>2 DEF CollectProtocolFees, TypeOK, Idle
  <2> QED
    BY <1>3, <2>3, IdleStep DEF CollectProtocolFees
<1>4. ASSUME NEW start \in MIN_ARRAY_START .. MAX_TICK_INDEX, InitializeTickArray(start)
      PROVE  IInv'
  <2>1. start \in Int
    OBVIOUS
  <2>2. TypeOK'
    BY <1>1, <1>4, <2>1 DEF InitializeTickArray, TypeOK, Idle
  <2>3. PoolInv'
    BY <1>4 DEF InitializeTickArray, IInv, PoolInv, TickHoldsPrice
  <2>4. Idle'
    BY <1>4 DEF InitializeTickArray, Idle
  <2> QED
    BY <2>2, <2>3, <2>4 DEF IInv, SwapInv, SwapWithinLimits
<1> QED
  BY <1>2, <1>3, <1>4

-----------------------------------------------------------------------------
(* The swap. *)

\* The checks made before the loop starts establish what the loop relies on
\* (swap.rs, swap_manager.rs:33-64).
LEMMA SwapStartedStep ==
  ASSUME IInv, Idle, NEW r \in SwapRequest, NEW timestamp \in U64,
         ValidArrays(r.arrays), ~SwapRejected(r, timestamp),
         swap' = StartedSwap(r, timestamp),
         UNCHANGED <<config, curve, fees, rewards, tick_arrays, ticks, positions, vault,
                     reward_vault>>
  PROVE  IInv'
<1> USE DEF config, curve, fees, rewards
<1>1. TypeOK /\ PoolInv
  BY DEF IInv
<1>2. r \in SwapRequest /\ timestamp \in U64
  OBVIOUS
<1>3. /\ Idle /\ ValidArrays(r.arrays) /\ ~SwapRejected(r, timestamp)
      /\ swap' = [request |-> r, timestamp |-> timestamp,
              amount_remaining |-> r.amount, amount_calculated |-> 0,
              curr_sqrt_price |-> sqrt_price, curr_tick_index |-> tick_current_index,
              curr_liquidity |-> liquidity, curr_protocol_fee |-> 0, curr_array_index |-> 1,
              curr_growth |-> fee_growth_global[IF r.a_to_b THEN "a" ELSE "b"],
              ticks |-> ticks]
      /\ UNCHANGED <<config, curve, fees, rewards, tick_arrays, ticks, positions, vault,
                     reward_vault>>
  BY DEF StartedSwap
<1>4. swap' \in SwapState
  <2>1. 0 \in U64
    BY Widths DEF U64
  <2>2. fee_growth_global[IF r.a_to_b THEN "a" ELSE "b"] \in U128
    BY <1>1 DEF TypeOK, Token
  <2> QED
    BY <1>1, <1>2, <1>3, <2>1, <2>2 DEF SwapState, SwapRequest, TypeOK
<1>5. TypeOK'
  BY <1>1, <1>3, <1>4 DEF TypeOK
<1>6. PoolInv'
  BY <1>1, <1>3 DEF PoolInv, TickHoldsPrice
<1>7. r.sqrt_price_limit \in PriceRange
  <2>1. /\ r.sqrt_price_limit \in Int /\ MIN_SQRT_PRICE_X64 \in Int /\ MAX_SQRT_PRICE_X64 \in Int
    <3>1. U128 \subseteq Int
      BY Widths
    <3>2. r.sqrt_price_limit \in U128
      BY <1>2 DEF SwapRequest
    <3>3. MIN_SQRT_PRICE_X64 \in U128 /\ MAX_SQRT_PRICE_X64 \in U128
      BY PriceBounds
    <3> QED
      BY <3>1, <3>2, <3>3
  <2> QED
    BY <1>3, <2>1 DEF SwapRejected, PriceRange
<1>8. SwapInv'
  <2>1. \A i \in 1 .. Len(r.arrays) : check_is_valid_start_tick(r.arrays[i])
    BY <1>1, <1>3 DEF ValidArrays, PoolInv
  <2>2. timestamp >= reward_last_updated_timestamp
    BY <1>1, <1>2, <1>3, NotBefore DEF SwapRejected
  <2> QED
    BY <1>1, <1>3, <1>7, <2>1, <2>2 DEF SwapInv, PoolInv, TickHoldsPrice
<1>9. SwapWithinLimits'
  <2>1. sqrt_price \in Int /\ r.sqrt_price_limit \in Int /\ r.amount \in Int
    <3>1. U128 \subseteq Int /\ U64 \subseteq Int
      BY Widths
    <3>2. sqrt_price \in U128 /\ r.sqrt_price_limit \in U128 /\ r.amount \in U64
      BY <1>1, <1>2 DEF TypeOK, SwapRequest
    <3> QED
      BY <3>1, <3>2
  <2>2. IF r.a_to_b THEN r.sqrt_price_limit <= sqrt_price ELSE r.sqrt_price_limit >= sqrt_price
    BY <1>3, <2>1 DEF SwapRejected
  <2>3. swap'.request = r /\ swap'.curr_sqrt_price = sqrt_price /\ swap'.amount_remaining = r.amount
          /\ sqrt_price' = sqrt_price
    BY <1>3
  <2>4. CASE Idle'
    BY <2>4 DEF SwapWithinLimits
  <2>5. CASE ~Idle'
    <3>1. CurrPrice' = sqrt_price
      BY <2>3, <2>5 DEF CurrPrice
    <3> QED
      BY <2>1, <2>2, <2>3, <3>1 DEF SwapWithinLimits
  <2> QED
    BY <2>4, <2>5
<1> QED
  BY <1>5, <1>6, <1>8, <1>9 DEF IInv

\* So the beginning of a swap keeps the invariant.
LEMMA SwapBeginStep ==
  ASSUME IInv, NEW r \in SwapRequests, NEW timestamp \in Timestamps, SwapBegin(r, timestamp)
  PROVE  IInv'
<1>1. r \in SwapRequest /\ timestamp \in U64
  BY PoolAssumption
<1> QED
  BY <1>1, SwapStartedStep DEF SwapBegin

\* While the loop continues there is a tick ahead: the price is not yet at the
\* end of the tick line that the swap moves to.
LEMMA TickToMoveFrom ==
  ASSUME IInv, ~Idle, LoopContinues(swap)
  PROVE  IF swap.request.a_to_b THEN MIN_TICK_INDEX <= swap.curr_tick_index
                                ELSE swap.curr_tick_index < MAX_TICK_INDEX
<1> DEFINE t == swap.curr_tick_index
           p == swap.curr_sqrt_price
           limit == swap.request.sqrt_price_limit
<1>1. TickHoldsPrice(t, p) /\ limit \in PriceRange /\ limit # p
  BY DEF IInv, SwapInv, LoopContinues
<1>2. IF swap.request.a_to_b THEN limit <= p ELSE limit >= p
  BY DEF IInv, SwapWithinLimits, CurrPrice
<1> HIDE DEF t, p, limit
<1>3. /\ MIN_SQRT_PRICE_X64 \in Int /\ MAX_SQRT_PRICE_X64 \in Int
      /\ limit \in Int /\ p \in Int /\ MIN_SQRT_PRICE_X64 <= limit /\ limit <= MAX_SQRT_PRICE_X64
  <2>1. PriceRange \subseteq Int /\ U128 \subseteq Int
    BY PriceBounds, Widths
  <2>2. MIN_SQRT_PRICE_X64 \in U128 /\ MAX_SQRT_PRICE_X64 \in U128 /\ p \in PriceRange
    BY <1>1, PriceBounds DEF TickHoldsPrice, PriceRange
  <2> QED
    BY <1>1, <2>1, <2>2 DEF PriceRange
<1>4. t \in Int /\ t >= MIN_TICK_INDEX - 1 /\ t <= MAX_TICK_INDEX
      /\ MIN_TICK_INDEX \in Int /\ MAX_TICK_INDEX \in Int
  BY <1>1, TickRangeAssumption DEF TickHoldsPrice
<1>5. ASSUME swap.request.a_to_b, ~(MIN_TICK_INDEX <= t) PROVE FALSE
  <2>1. t + 1 = MIN_TICK_INDEX /\ t < MAX_TICK_INDEX
    BY <1>4, <1>5, TickRangeAssumption
  <2>2. p <= MIN_SQRT_PRICE_X64
    BY <1>1, <2>1 DEF TickHoldsPrice, MIN_SQRT_PRICE_X64
  <2>3. limit <= p /\ limit # p
    BY <1>1, <1>2, <1>5
  <2> QED
    BY <1>3, <2>2, <2>3
<1>6. ASSUME ~swap.request.a_to_b, ~(t < MAX_TICK_INDEX) PROVE FALSE
  <2>1. t = MAX_TICK_INDEX /\ t >= MIN_TICK_INDEX
    BY <1>4, <1>6, TickRangeAssumption
  <2>2. MAX_SQRT_PRICE_X64 <= p
    BY <1>1, <2>1 DEF TickHoldsPrice, MAX_SQRT_PRICE_X64
  <2>3. limit >= p /\ limit # p
    BY <1>1, <1>2, <1>6
  <2> QED
    BY <1>3, <2>2, <2>3
<1> QED
  BY <1>5, <1>6 DEF t

\* Prices increase with their ticks.
LEMMA PricesIncrease ==
  ASSUME NEW s \in TickIndices, NEW t \in TickIndices, s <= t
  PROVE  SqrtPrice[s] <= SqrtPrice[t]
<1>1. s \in Int /\ t \in Int
  BY ArrayTypes
<1>2. SqrtPrice[s] \in Int /\ SqrtPrice[t] \in Int
  <2>1. SqrtPrice[s] \in U128 /\ SqrtPrice[t] \in U128 /\ U128 \subseteq Int
    BY PriceBounds, Widths
  <2> QED
    BY <2>1
<1>3. CASE s = t
  BY <1>2, <1>3
<1>4. CASE s # t
  <2>1. s < t
    BY <1>1, <1>4
  <2>2. SqrtPrice[s] < SqrtPrice[t]
    BY <2>1, SqrtPriceAssumption
  <2> QED
    BY <1>2, <2>2
<1> QED
  BY <1>3, <1>4

\* The tick that an iteration heads for, and the target price of its step, are
\* on the right side of the current tick and price.
LEMMA StepTarget ==
  ASSUME IInv, ~Idle, LoopContinues(swap), NextInitTick(swap) # SearchFailed,
         NEW target,
         target = SqrtPriceTarget(NextTickPrice(swap), swap.request.sqrt_price_limit,
                                  swap.request.a_to_b)
  PROVE  /\ NextInitTick(swap).array_index \in Nat \ {0}
         /\ NextInitTick(swap).array_index \in 1 .. Len(swap.request.arrays)
         /\ NextInitTick(swap).tick_index \in TickIndices
         /\ NextTickPrice(swap) = SqrtPrice[NextInitTick(swap).tick_index]
         /\ target \in PriceRange /\ swap.curr_sqrt_price \in PriceRange
         /\ IF swap.request.a_to_b
            THEN target <= swap.curr_sqrt_price /\ swap.request.sqrt_price_limit <= target
            ELSE swap.curr_sqrt_price <= target /\ target <= swap.request.sqrt_price_limit
         /\ IF swap.request.a_to_b THEN NextInitTick(swap).tick_index <= swap.curr_tick_index
            ELSE NextInitTick(swap).tick_index > swap.curr_tick_index
<1> DEFINE s     == swap
           a_to_b == s.request.a_to_b
           t     == s.curr_tick_index
           p     == s.curr_sqrt_price
           limit == s.request.sqrt_price_limit
           arrays == s.request.arrays
           first == s.curr_array_index
           initialized == {u \in UsableTicks : s.ticks[u].initialized}
           next  == NextInitTick(s)
           n     == next.tick_index
<1>1. s \in SwapState
  BY DEF IInv, TypeOK, Idle
<1>2. /\ a_to_b \in BOOLEAN /\ arrays \in Seq(Int) /\ first \in Nat /\ t \in Int /\ p \in U128
  BY <1>1 DEF SwapState, SwapRequest
<1>3. /\ \A i \in 1 .. Len(arrays) : check_is_valid_start_tick(arrays[i])
      /\ limit \in PriceRange /\ first # 0 /\ TickHoldsPrice(t, p)
  BY DEF IInv, SwapInv
<1>4. IF a_to_b THEN MIN_TICK_INDEX <= t ELSE t < MAX_TICK_INDEX
  BY TickToMoveFrom
<1>5. IF a_to_b THEN limit <= p ELSE limit >= p
  BY DEF IInv, SwapWithinLimits, CurrPrice
<1>6. next = get_next_initialized_tick_index(initialized, arrays, t, a_to_b, first)
        /\ next # SearchFailed /\ initialized \in SUBSET UsableTicks
  BY DEF NextInitTick
<1>7. NextTickPrice(s) = SqrtPrice[n]
  BY DEF NextTickPrice, sqrt_price_from_tick_index
<1>8. target = SqrtPriceTarget(SqrtPrice[n], limit, a_to_b)
  BY <1>7
<1> HIDE DEF a_to_b, t, p, limit, arrays, first, initialized, next
<1>9. /\ next.array_index \in first .. Len(arrays)
      /\ n \in TickIndices
      /\ IF a_to_b THEN n <= t ELSE n > t
  BY <1>2, <1>3, <1>4, <1>6, SearchYieldsTickAhead
<1> HIDE DEF n
<1>10. Len(arrays) \in Nat
  BY <1>2
<1>11. next.array_index \in 1 .. Len(arrays)
  BY <1>2, <1>3, <1>9, <1>10
<1>12. /\ PriceRange \subseteq Int /\ U128 \subseteq Int
       /\ \A u \in TickIndices : SqrtPrice[u] \in PriceRange
  BY PriceBounds, Widths
<1>13. p \in PriceRange /\ t \in Int /\ MIN_TICK_INDEX \in Int /\ MAX_TICK_INDEX \in Int
  BY <1>2, <1>3, TickRangeAssumption DEF TickHoldsPrice, PriceRange
<1>14. ASSUME a_to_b PROVE target \in PriceRange /\ target <= p /\ limit <= target
  <2>1. t \in TickIndices /\ SqrtPrice[t] <= p
    BY <1>3, <1>4, <1>13, <1>14 DEF TickHoldsPrice, TickIndices
  <2>2. SqrtPrice[n] <= SqrtPrice[t]
    <3>1. n <= t
      BY <1>9, <1>14
    <3> QED
      BY <1>9, <2>1, <3>1, PricesIncrease
  <2>3. /\ SqrtPrice[n] \in Int /\ SqrtPrice[t] \in Int /\ p \in Int /\ limit \in Int
        /\ SqrtPrice[n] \in PriceRange
    BY <1>3, <1>9, <1>12, <1>13, <2>1
  <2>4. target = IF limit > SqrtPrice[n] THEN limit ELSE SqrtPrice[n]
    BY <1>8, <1>14 DEF SqrtPriceTarget, Upper
  <2>5. limit <= p
    BY <1>5, <1>14
  <2>6. target \in PriceRange /\ target <= p /\ limit <= target
    BY <1>3, <2>1, <2>2, <2>3, <2>4, <2>5
  <2> QED
    BY <1>14, <2>6
<1>15. ASSUME ~a_to_b PROVE target \in PriceRange /\ p <= target /\ target <= limit
  <2>1. t + 1 \in TickIndices /\ p <= SqrtPrice[t + 1]
    <3>1. t \in (MIN_TICK_INDEX - 1) .. MAX_TICK_INDEX /\ t < MAX_TICK_INDEX
      BY <1>3, <1>4, <1>15 DEF TickHoldsPrice
    <3> QED
      BY <1>3, <1>13, <3>1 DEF TickHoldsPrice, TickIndices
  <2>2. SqrtPrice[t + 1] <= SqrtPrice[n]
    <3>1. t + 1 <= n
      BY <1>9, <1>13, <1>15, ArrayTypes
    <3> QED
      BY <1>9, <2>1, <3>1, PricesIncrease
  <2>3. /\ SqrtPrice[n] \in Int /\ SqrtPrice[t + 1] \in Int /\ p \in Int /\ limit \in Int
        /\ SqrtPrice[n] \in PriceRange
    BY <1>3, <1>9, <1>12, <1>13, <2>1
  <2>4. target = IF limit > SqrtPrice[n] THEN SqrtPrice[n] ELSE limit
    BY <1>8, <1>15 DEF SqrtPriceTarget, Lower
  <2>5. limit >= p
    BY <1>5, <1>15
  <2>6. target \in PriceRange /\ p <= target /\ target <= limit
    BY <1>3, <2>1, <2>2, <2>3, <2>4, <2>5
  <2> QED
    BY <1>15, <2>6
<1>16. next.array_index \in Nat \ {0}
  BY <1>11
<1>17. target \in PriceRange /\ IF a_to_b THEN target <= p /\ limit <= target
                                     ELSE p <= target /\ target <= limit
  BY <1>14, <1>15
<1> QED
  BY <1>7, <1>9, <1>11, <1>13, <1>16, <1>17 DEF next, n, arrays, a_to_b, p, limit, t

\* The fees of a step fit their words.
LEMMA FeesType ==
  ASSUME NEW fee_amount \in U64, NEW rate \in 0 .. MAX_PROTOCOL_FEE_RATE, NEW L \in U128,
         NEW protocol_fee \in U64, NEW growth \in U128
  PROVE  /\ calculate_fees(fee_amount, rate, L, protocol_fee, growth).protocol_fee \in U64
         /\ calculate_fees(fee_amount, rate, L, protocol_fee, growth).growth \in U128
<1> DEFINE delta == calculate_protocol_fee(fee_amount, rate)
           g     == ((fee_amount - delta) * TO_Q64) \div L
<1>1. /\ fee_amount \in Int /\ rate \in Int /\ L \in Nat /\ protocol_fee \in Int
      /\ growth \in Int /\ TO_Q64 \in Int /\ PROTOCOL_FEE_RATE_MUL_VALUE \in Nat \ {0}
  BY Widths, FeeRateAssumption
<1>2. delta \in Int
  <2> DEFINE product == fee_amount * rate
  <2>1. product \in Int
    BY <1>1
  <2> HIDE DEF product
  <2>2. product \div PROTOCOL_FEE_RATE_MUL_VALUE \in Int
    BY <1>1, <2>1, DivMod
  <2> QED
    BY <2>2 DEF calculate_protocol_fee, product
<1> HIDE DEF delta
<1>3. WrapU64(protocol_fee + delta) \in U64
  <2>1. protocol_fee + delta \in Int
    BY <1>1, <1>2
  <2> QED
    BY <2>1, Conversions
<1>4. L # 0 => WrapU128(growth + g) \in U128
  <2>1. SUFFICES ASSUME L # 0 PROVE WrapU128(growth + g) \in U128
    OBVIOUS
  <2> DEFINE n == (fee_amount - delta) * TO_Q64
  <2>2. n \in Int /\ L \in Nat \ {0}
    BY <1>1, <1>2, <2>1
  <2> HIDE DEF n
  <2>3. n \div L \in Int
    BY <2>2, DivMod
  <2>4. g \in Int
    BY <2>3 DEF n
  <2> HIDE DEF g
  <2>5. growth + g \in Int
    BY <1>1, <2>4
  <2> QED
    BY <2>5, Conversions
<1> HIDE DEF g
<1>5. calculate_fees(fee_amount, rate, L, protocol_fee, growth)
        = [protocol_fee |-> WrapU64(protocol_fee + delta),
           growth |-> IF L = 0 THEN growth ELSE WrapU128(growth + g)]
  BY DEF calculate_fees, delta, g
<1> QED
  BY <1>3, <1>4, <1>5

\* What the crossing of a tick writes has the right types.
LEMMA CrossingType ==
  ASSUME IInv, ~Idle, NEW c \in SwapStepComputation, LiquidityAfter(swap, c) # Err,
         NextInitTick(swap).tick_index \in TickIndices
  PROVE  /\ LiquidityAfter(swap, c) \in U128
         /\ TicksAfter(swap, c) \in [UsableTicks -> Tick]
         /\ StepFees(swap, c).protocol_fee \in U64
         /\ StepFees(swap, c).growth \in U128
<1> DEFINE s == swap
           n == NextInitTick(s).tick_index
<1>1. s \in SwapState /\ TypeOK /\ SwapInv
  BY DEF IInv, TypeOK, Idle
<1>2. /\ s.curr_liquidity \in U128 /\ s.curr_liquidity \in Int
      /\ s.curr_protocol_fee \in U64 /\ s.curr_growth \in U128
      /\ s.ticks \in [UsableTicks -> Tick] /\ s.timestamp \in U64
  <2>1. /\ s.curr_liquidity \in U128
        /\ s.curr_protocol_fee \in U64 /\ s.curr_growth \in U128
        /\ s.ticks \in [UsableTicks -> Tick] /\ s.timestamp \in U64
    BY <1>1 DEF SwapState
  <2> QED
    BY <2>1, WordsAreIntegers
<1>3. /\ StepFees(s, c).protocol_fee \in U64
      /\ StepFees(s, c).growth \in U128
  <2>1. c.fee_amount \in U64 /\ protocol_fee_rate \in 0 .. MAX_PROTOCOL_FEE_RATE
    BY <1>1 DEF SwapStepComputation, TypeOK
  <2> QED
    BY <1>2, <2>1, FeesType DEF StepFees
<1>4. GrowthsAtCrossing(s, c) \in [Token -> U128]
  <2>1. InputToken(s) \in Token
    BY DEF InputToken, Token
  <2>2. fee_growth_global \in [Token -> U128]
    BY <1>1 DEF TypeOK
  <2> QED
    BY <1>3, <2>1, <2>2 DEF GrowthsAtCrossing
<1>5. RewardInfosAt(s.timestamp) \in [RewardIndex -> WhirlpoolRewardInfo]
  <2>1. s.timestamp >= reward_last_updated_timestamp
    BY <1>1 DEF SwapInv
  <2> QED
    BY <1>1, <1>2, <2>1, RewardInfosAtType
<1>6. n \in TickIndices
  OBVIOUS
<1>7. LiquidityAfter(s, c) # Err
  OBVIOUS
<1> DEFINE crosses == CrossesInitialized(s, c)
<1>8. crosses => n % tick_spacing = 0
  BY DEF CrossesInitialized, HoldsTick, check_is_usable_tick
<1> HIDE DEF s, n
<1>9. ASSUME crosses PROVE n \in UsableTicks /\ s.ticks[n] \in Tick
  BY <1>2, <1>6, <1>8, <1>9 DEF UsableTicks
<1> HIDE DEF crosses
<1>10. LiquidityAfter(s, c) \in U128
  <2> DEFINE net == IF s.request.a_to_b THEN -s.ticks[n].liquidity_net
                    ELSE s.ticks[n].liquidity_net
  <2>1. LiquidityAfter(s, c) = IF crosses THEN add_liquidity_delta(s.curr_liquidity, net)
                               ELSE s.curr_liquidity
    BY DEF LiquidityAfter, crosses, n
  <2>2. CASE crosses
    <3>1. s.ticks[n].liquidity_net \in Int
      BY <1>9, <2>2 DEF Tick
    <3>2. net \in Int
      BY <3>1
    <3> HIDE DEF net
    <3> QED
      BY <1>2, <1>7, <2>1, <2>2, <3>2, AddLiquidityType
  <2>3. CASE ~crosses
    BY <1>2, <2>1, <2>3
  <2> QED
    BY <2>2, <2>3
<1>11. TicksAfter(s, c) \in [UsableTicks -> Tick]
  <2> DEFINE u == next_tick_cross_update(s.ticks[n], GrowthsAtCrossing(s, c),
                                         RewardInfosAt(s.timestamp))
  <2>1. TicksAfter(s, c) = IF crosses THEN [s.ticks EXCEPT ![n] = u] ELSE s.ticks
    BY <1>2 DEF TicksAfter, crosses, n
  <2>2. CASE crosses
    <3>1. u \in Tick
      BY <1>4, <1>5, <1>9, <2>2, CrossType
    <3> HIDE DEF u
    <3> QED
      BY <1>2, <2>1, <2>2, <3>1
  <2>3. CASE ~crosses
    BY <1>2, <2>1, <2>3
  <2> QED
    BY <2>2, <2>3
<1> QED
  BY <1>3, <1>10, <1>11 DEF s

\* After an iteration the tick and the price agree again: a tick that is reached
\* is left to the left of it, or entered from it, and otherwise the tick is that
\* of the new price, or the old one when the price did not move.
LEMMA TickAfterHoldsPrice ==
  ASSUME IInv, ~Idle, NEW c, c.next_price \in PriceRange,
         NextInitTick(swap).tick_index \in TickIndices,
         NextTickPrice(swap) = SqrtPrice[NextInitTick(swap).tick_index]
  PROVE  TickHoldsPrice(TickAfter(swap, c), c.next_price)
<1> DEFINE n == NextInitTick(swap).tick_index
           p == c.next_price
<1>1. n \in TickIndices /\ p \in PriceRange /\ TickHoldsPrice(swap.curr_tick_index, swap.curr_sqrt_price)
  BY DEF IInv, SwapInv
<1>2. TickAfter(swap, c)
        = IF p = SqrtPrice[n] THEN IF swap.request.a_to_b THEN n - 1 ELSE n
          ELSE IF p # swap.curr_sqrt_price THEN tick_index_from_sqrt_price(p)
          ELSE swap.curr_tick_index
  BY DEF TickAfter, ReachesTick
<1> HIDE DEF n, p
<1>3. /\ n \in Int /\ MIN_TICK_INDEX \in Int /\ MAX_TICK_INDEX \in Int
      /\ MIN_TICK_INDEX <= n /\ n <= MAX_TICK_INDEX
  BY <1>1, TickRangeAssumption DEF TickIndices
<1>4. ASSUME NEW t \in TickIndices PROVE SqrtPrice[t] \in Int
  <2>1. SqrtPrice[t] \in U128 /\ U128 \subseteq Int
    BY PriceBounds, Widths
  <2> QED
    BY <2>1
<1>5. CASE p = SqrtPrice[n] /\ swap.request.a_to_b
  <2>1. n - 1 >= MIN_TICK_INDEX => SqrtPrice[n - 1] <= p
    <3>1. SUFFICES ASSUME n - 1 >= MIN_TICK_INDEX PROVE SqrtPrice[n - 1] <= p
      OBVIOUS
    <3>2. n - 1 \in TickIndices /\ n - 1 <= n
      BY <1>3, <3>1 DEF TickIndices
    <3> QED
      BY <1>1, <1>5, <3>2, PricesIncrease
  <2>2. n - 1 + 1 = n /\ n - 1 \in (MIN_TICK_INDEX - 1) .. MAX_TICK_INDEX
    BY <1>3
  <2>3. p <= SqrtPrice[n - 1 + 1]
    BY <1>1, <1>4, <1>5, <2>2
  <2>4. TickHoldsPrice(n - 1, p)
    BY <1>1, <2>1, <2>2, <2>3 DEF TickHoldsPrice, PriceRange
  <2> QED
    BY <1>2, <1>5, <2>4 DEF p
<1>6. CASE p = SqrtPrice[n] /\ ~swap.request.a_to_b
  <2>1. n < MAX_TICK_INDEX => p <= SqrtPrice[n + 1]
    <3>1. SUFFICES ASSUME n < MAX_TICK_INDEX PROVE p <= SqrtPrice[n + 1]
      OBVIOUS
    <3>2. n + 1 \in TickIndices /\ n <= n + 1
      BY <1>3, <3>1 DEF TickIndices
    <3> QED
      BY <1>1, <1>6, <3>2, PricesIncrease
  <2>2. n \in (MIN_TICK_INDEX - 1) .. MAX_TICK_INDEX
    BY <1>3
  <2>3. SqrtPrice[n] <= p
    BY <1>1, <1>4, <1>6
  <2>4. TickHoldsPrice(n, p)
    BY <1>1, <2>1, <2>2, <2>3 DEF TickHoldsPrice, PriceRange
  <2> QED
    BY <1>2, <1>6, <2>4 DEF p
<1>7. CASE p # SqrtPrice[n] /\ p # swap.curr_sqrt_price
  <2> DEFINE t == tick_index_from_sqrt_price(p)
  <2>1. /\ t \in TickIndices /\ SqrtPrice[t] <= p
        /\ t < MAX_TICK_INDEX => p < SqrtPrice[t + 1]
    BY <1>1, TickOfPrice
  <2> HIDE DEF t
  <2>2. t \in (MIN_TICK_INDEX - 1) .. MAX_TICK_INDEX /\ t \in Int
    BY <1>3, <2>1 DEF TickIndices
  <2>3. t < MAX_TICK_INDEX => p <= SqrtPrice[t + 1]
    <3>1. SUFFICES ASSUME t < MAX_TICK_INDEX PROVE p <= SqrtPrice[t + 1]
      OBVIOUS
    <3>2. t + 1 \in TickIndices
      BY <1>3, <2>1, <3>1 DEF TickIndices
    <3>3. SqrtPrice[t + 1] \in Int /\ p \in Int
      BY <1>1, <1>4, <3>2, PriceBounds
    <3> QED
      BY <2>1, <3>1, <3>3
  <2>4. TickHoldsPrice(t, p)
    BY <1>1, <2>1, <2>2, <2>3 DEF TickHoldsPrice, PriceRange
  <2> QED
    BY <1>2, <1>7, <2>4 DEF p, t
<1>8. CASE p # SqrtPrice[n] /\ p = swap.curr_sqrt_price
  BY <1>1, <1>2, <1>8 DEF p
<1> QED
  BY <1>5, <1>6, <1>7, <1>8

\* What is known of an iteration that does not fail: c is what its step computes.
StepComputed(s, c) ==
  LET r      == s.request
      next   == NextInitTick(s)
      target == SqrtPriceTarget(NextTickPrice(s), r.sqrt_price_limit, r.a_to_b)
  IN  /\ ~Idle /\ LoopContinues(s) /\ next # SearchFailed /\ ~ComputationFails(s, c)
      /\ c = Computation(s)
      /\ next.array_index \in Nat \ {0}
      /\ next.array_index \in 1 .. Len(r.arrays)
      /\ next.tick_index \in TickIndices
      /\ NextTickPrice(s) = SqrtPrice[next.tick_index]
      /\ target \in PriceRange /\ s.curr_sqrt_price \in PriceRange
      /\ IF r.a_to_b THEN target <= s.curr_sqrt_price /\ r.sqrt_price_limit <= target
         ELSE s.curr_sqrt_price <= target /\ target <= r.sqrt_price_limit
      /\ c \in SwapStepComputation /\ c.next_price \in PriceRange
      /\ IF r.a_to_b THEN target <= c.next_price /\ c.next_price <= s.curr_sqrt_price
         ELSE s.curr_sqrt_price <= c.next_price /\ c.next_price <= target
      /\ IF r.a_to_b THEN next.tick_index <= s.curr_tick_index
         ELSE next.tick_index > s.curr_tick_index
      /\ LiquidityAfter(s, c) \in U128
      /\ TicksAfter(s, c) \in [UsableTicks -> Tick]
      /\ StepFees(s, c).protocol_fee \in U64
      /\ StepFees(s, c).growth \in U128
      /\ TickHoldsPrice(TickAfter(s, c), c.next_price)

\* The state after it.
SwapMoves(s, c) ==
  /\ swap' = [s EXCEPT
       !.amount_remaining  = s.amount_remaining - SpecifiedAmount(s, c),
       !.amount_calculated = s.amount_calculated + OtherAmount(s, c),
       !.curr_protocol_fee = StepFees(s, c).protocol_fee,
       !.curr_growth       = StepFees(s, c).growth,
       !.curr_liquidity    = LiquidityAfter(s, c),
       !.ticks             = TicksAfter(s, c),
       !.curr_array_index  = ArrayAfter(s, c),
       !.curr_tick_index   = TickAfter(s, c),
       !.curr_sqrt_price   = c.next_price]
  /\ UNCHANGED <<config, curve, fees, rewards, tick_arrays, ticks, positions, vault, reward_vault>>

\* An iteration computes one step with the target it has found, and moves the
\* locals of the loop by it (swap_manager.rs:66).
LEMMA SwapIteration ==
  ASSUME IInv, SwapStep
  PROVE  \E c : StepComputed(swap, c) /\ SwapMoves(swap, c)
<1> USE DEF config, curve, fees, rewards
<1> DEFINE s == swap
           r == s.request
           next == NextInitTick(s)
           target == SqrtPriceTarget(NextTickPrice(s), r.sqrt_price_limit, r.a_to_b)
<1>1. PICK c \in {Computation(s)} :
        /\ ~Idle /\ LoopContinues(s) /\ next # SearchFailed
        /\ ~ComputationFails(s, c)
        /\ SwapMoves(s, c)
  BY DEF SwapStep, SwapMoves
<1>2. /\ s \in SwapState /\ TypeOK /\ PoolInv /\ SwapInv /\ SwapWithinLimits /\ r \in SwapRequest
  BY <1>1 DEF IInv, TypeOK, Idle, SwapState
<1>3. /\ next.array_index \in Nat \ {0}
      /\ next.array_index \in 1 .. Len(r.arrays)
      /\ next.tick_index \in TickIndices
      /\ NextTickPrice(s) = SqrtPrice[next.tick_index]
      /\ target \in PriceRange /\ s.curr_sqrt_price \in PriceRange
      /\ IF r.a_to_b THEN target <= s.curr_sqrt_price /\ r.sqrt_price_limit <= target
         ELSE s.curr_sqrt_price <= target /\ target <= r.sqrt_price_limit
      /\ IF r.a_to_b THEN next.tick_index <= s.curr_tick_index
         ELSE next.tick_index > s.curr_tick_index
  BY <1>1, StepTarget
<1>4. /\ s.amount_remaining \in U64 /\ s.amount_calculated \in U64
      /\ s.curr_liquidity \in U128 /\ s.curr_array_index \in Nat
      /\ r.is_input \in BOOLEAN /\ r.a_to_b \in BOOLEAN
      /\ r.amount \in U64 /\ r.sqrt_price_limit \in U128
      /\ fee_rate \in 0 .. MAX_FEE_RATE
  BY <1>2 DEF SwapState, SwapRequest, TypeOK
<1>5. /\ c = compute_swap(s.amount_remaining, fee_rate, s.curr_liquidity, s.curr_sqrt_price,
                          target, r.is_input, r.a_to_b)
      /\ c # SwapStepError
  BY <1>1 DEF Computation, ComputationFails
<1> HIDE DEF target
<1>6. /\ c \in SwapStepComputation
      /\ c.next_price \in PriceRange
      /\ IF r.a_to_b THEN target <= c.next_price /\ c.next_price <= s.curr_sqrt_price
         ELSE s.curr_sqrt_price <= c.next_price /\ c.next_price <= target
  <2> DEFINE p == s.curr_sqrt_price
             a == s.amount_remaining
             L == s.curr_liquidity
             is_input == r.is_input
             a_to_b == r.a_to_b
  <2>1. /\ a \in U64 /\ L \in U128 /\ p \in PriceRange /\ is_input \in BOOLEAN /\ a_to_b \in BOOLEAN
        /\ IF a_to_b THEN target <= p ELSE p <= target
        /\ c = compute_swap(a, fee_rate, L, p, target, is_input, a_to_b)
    BY <1>3, <1>4, <1>5
  <2> HIDE DEF p, a, L, is_input, a_to_b
  <2>2. /\ c \in SwapStepComputation
        /\ c.next_price \in PriceRange
        /\ IF a_to_b THEN target <= c.next_price /\ c.next_price <= p
           ELSE p <= c.next_price /\ c.next_price <= target
    BY <1>3, <1>4, <1>5, <2>1, SwapStepNeverOvershoots
  <2> QED
    BY <2>2 DEF p, a_to_b
<1>7. /\ LiquidityAfter(s, c) \in U128
      /\ TicksAfter(s, c) \in [UsableTicks -> Tick]
      /\ StepFees(s, c).protocol_fee \in U64
      /\ StepFees(s, c).growth \in U128
  BY <1>1, <1>3, <1>6, CrossingType DEF ComputationFails
<1>8. TickHoldsPrice(TickAfter(s, c), c.next_price)
  BY <1>1, <1>3, <1>6, TickAfterHoldsPrice
<1>9. c = Computation(s)
  BY <1>1
<1> QED
  BY <1>1, <1>3, <1>6, <1>7, <1>8, <1>9 DEF StepComputed, target

\* An iteration of the swap loop keeps the invariant (swap_manager.rs:65-180).
LEMMA SwapStepStep ==
  ASSUME IInv, SwapStep PROVE IInv'
<1> USE DEF config, curve, fees, rewards
<1> DEFINE s == swap
           r == s.request
           next == NextInitTick(s)
           target == SqrtPriceTarget(NextTickPrice(s), r.sqrt_price_limit, r.a_to_b)
<1>0. PICK c : StepComputed(s, c) /\ SwapMoves(s, c)
  BY SwapIteration
<1>1. /\ ~Idle /\ ~ComputationFails(s, c)
      /\ swap' = [s EXCEPT
           !.amount_remaining  = s.amount_remaining - SpecifiedAmount(s, c),
           !.amount_calculated = s.amount_calculated + OtherAmount(s, c),
           !.curr_protocol_fee = StepFees(s, c).protocol_fee,
           !.curr_growth       = StepFees(s, c).growth,
           !.curr_liquidity    = LiquidityAfter(s, c),
           !.ticks             = TicksAfter(s, c),
           !.curr_array_index  = ArrayAfter(s, c),
           !.curr_tick_index   = TickAfter(s, c),
           !.curr_sqrt_price   = c.next_price]
      /\ UNCHANGED <<config, curve, fees, rewards, tick_arrays, ticks, positions, vault,
                     reward_vault>>
  BY <1>0 DEF StepComputed, SwapMoves
<1>2. /\ s \in SwapState /\ TypeOK /\ PoolInv /\ SwapInv /\ SwapWithinLimits /\ r \in SwapRequest
  BY <1>1 DEF IInv, TypeOK, Idle, SwapState
<1>3. /\ next.array_index \in Nat \ {0}
      /\ target \in PriceRange /\ s.curr_sqrt_price \in PriceRange
      /\ IF r.a_to_b THEN target <= s.curr_sqrt_price /\ r.sqrt_price_limit <= target
         ELSE s.curr_sqrt_price <= target /\ target <= r.sqrt_price_limit
  BY <1>0 DEF StepComputed
<1>4. /\ s.amount_remaining \in U64 /\ s.amount_calculated \in U64
      /\ s.curr_array_index \in Nat
      /\ r.a_to_b \in BOOLEAN
      /\ r.amount \in U64 /\ r.sqrt_price_limit \in U128
  BY <1>2 DEF SwapState, SwapRequest
<1>6. /\ c \in SwapStepComputation
      /\ c.next_price \in PriceRange
      /\ IF r.a_to_b THEN target <= c.next_price /\ c.next_price <= s.curr_sqrt_price
         ELSE s.curr_sqrt_price <= c.next_price /\ c.next_price <= target
  BY <1>0 DEF StepComputed
<1>7. /\ LiquidityAfter(s, c) \in U128
      /\ TicksAfter(s, c) \in [UsableTicks -> Tick]
      /\ StepFees(s, c).protocol_fee \in U64
      /\ StepFees(s, c).growth \in U128
  BY <1>0 DEF StepComputed
<1>8. TickHoldsPrice(TickAfter(s, c), c.next_price)
  BY <1>0 DEF StepComputed
<1> HIDE DEF target
<1>9. ArrayAfter(s, c) \in Nat \ {0}
  <2>1. s.curr_array_index # 0
    BY <1>1, <1>2 DEF SwapInv
  <2>2. s.curr_array_index \in Nat \ {0}
    BY <1>4, <2>1
  <2> DEFINE i == next.array_index
  <2>3. i \in Nat \ {0} /\ i + 1 \in Nat \ {0}
    BY <1>3
  <2> HIDE DEF i
  <2>4. NextArrayIndex(r.arrays, i, next.tick_index, r.a_to_b) \in {i, i + 1}
    BY DEF NextArrayIndex
  <2> QED
    BY <2>2, <2>3, <2>4 DEF ArrayAfter, i
<1>10. /\ s.amount_remaining - SpecifiedAmount(s, c) \in U64
       /\ s.amount_remaining - SpecifiedAmount(s, c) <= s.amount_remaining
       /\ s.amount_calculated + OtherAmount(s, c) \in U64
  <2>1. /\ c.amount_in \in U64 /\ c.amount_out \in U64 /\ c.fee_amount \in U64
    BY <1>6 DEF SwapStepComputation
  <2>2. /\ c.amount_in \in Nat /\ c.amount_out \in Nat /\ c.amount_in + c.fee_amount \in Nat
    BY <2>1, WordsAreIntegers
  <2>3. SpecifiedAmount(s, c) \in Nat /\ OtherAmount(s, c) \in Nat
    BY <2>2 DEF SpecifiedAmount, OtherAmount
  <2>4. /\ s.amount_remaining \in Int /\ s.amount_calculated \in Int
    BY <1>4, WordsAreIntegers
  <2>5. /\ CheckU64(s.amount_remaining - SpecifiedAmount(s, c)) # Err
        /\ CheckU64(s.amount_calculated + OtherAmount(s, c)) # Err
    BY <1>1 DEF ComputationFails
  <2> DEFINE x == s.amount_remaining - SpecifiedAmount(s, c)
             y == s.amount_calculated + OtherAmount(s, c)
  <2>6. x \in Int /\ y \in Int /\ x <= s.amount_remaining
    BY <2>3, <2>4
  <2> HIDE DEF x, y
  <2>7. x \in U64 /\ y \in U64
    BY <2>5, <2>6, Conversions DEF x, y
  <2> QED
    BY <2>6, <2>7 DEF x, y
<1>11. TickAfter(s, c) \in Int /\ c.next_price \in U128
  BY <1>6, <1>8, PriceBounds, TickRangeAssumption DEF TickHoldsPrice
<1> HIDE DEF s
<1>12. swap' \in SwapState
  BY <1>1, <1>2, <1>7, <1>9, <1>10, <1>11 DEF SwapState
<1>13. /\ swap'.request = s.request /\ swap'.timestamp = s.timestamp
       /\ swap'.curr_tick_index = TickAfter(s, c) /\ swap'.curr_sqrt_price = c.next_price
       /\ swap'.curr_array_index = ArrayAfter(s, c)
       /\ swap'.amount_remaining = s.amount_remaining - SpecifiedAmount(s, c)
  BY <1>1, <1>2 DEF SwapState
<1>14. TypeOK'
  BY <1>1, <1>2, <1>12 DEF TypeOK
<1>15. PoolInv'
  BY <1>1, <1>2 DEF PoolInv, TickHoldsPrice
<1>16. SwapInv'
  <2>1. /\ \A i \in 1 .. Len(r.arrays) : check_is_valid_start_tick(r.arrays[i])
        /\ r.sqrt_price_limit \in PriceRange
        /\ s.timestamp >= reward_last_updated_timestamp
    BY <1>1, <1>2 DEF SwapInv, s
  <2>2. TickHoldsPrice(swap'.curr_tick_index, swap'.curr_sqrt_price)
    BY <1>8, <1>13
  <2> QED
    BY <1>1, <1>9, <1>13, <2>1, <2>2 DEF SwapInv, TickHoldsPrice
<1>17. SwapWithinLimits'
  <2> DEFINE p == s.curr_sqrt_price
             q == c.next_price
             limit == r.sqrt_price_limit
  <2>1. /\ IF r.a_to_b THEN p <= sqrt_price ELSE p >= sqrt_price
        /\ s.amount_remaining <= r.amount
    BY <1>1, <1>2 DEF SwapWithinLimits, CurrPrice, s
  <2>2. /\ p \in Int /\ q \in Int /\ limit \in Int /\ target \in Int /\ sqrt_price \in Int
    <3>1. PriceRange \subseteq Int /\ U128 \subseteq Int
      BY PriceBounds, Widths
    <3>2. sqrt_price \in U128
      BY <1>2 DEF TypeOK
    <3> QED
      BY <1>3, <1>4, <1>6, <3>1, <3>2
  <2>3. IF r.a_to_b THEN limit <= q /\ q <= sqrt_price ELSE limit >= q /\ q >= sqrt_price
    <3> HIDE DEF r, p, q, limit
    <3>1. ASSUME r.a_to_b PROVE limit <= q /\ q <= sqrt_price
      <4>1. limit <= target /\ target <= q /\ q <= p /\ p <= sqrt_price
        BY <1>3, <1>6, <2>1, <3>1 DEF p, q, limit
      <4> QED
        BY <2>2, <4>1
    <3>2. ASSUME ~r.a_to_b PROVE limit >= q /\ q >= sqrt_price
      <4>1. target <= limit /\ q <= target /\ p <= q /\ p >= sqrt_price
        BY <1>3, <1>6, <2>1, <3>2 DEF p, q, limit
      <4> QED
        BY <2>2, <4>1
    <3> QED
      BY <3>1, <3>2
  <2>4. s.amount_remaining - SpecifiedAmount(s, c) <= r.amount
    <3>1. s.amount_remaining \in Int /\ r.amount \in Int
            /\ s.amount_remaining - SpecifiedAmount(s, c) \in Int
      BY <1>4, <1>10, WordsAreIntegers
    <3> QED
      BY <1>10, <2>1, <3>1
  <2>5. CASE Idle'
    BY <2>5 DEF SwapWithinLimits
  <2>6. CASE ~Idle'
    <3>1. CurrPrice' = q /\ sqrt_price' = sqrt_price
      BY <1>1, <1>13, <2>6 DEF CurrPrice
    <3> QED
      BY <1>13, <2>3, <2>4, <3>1 DEF SwapWithinLimits
  <2> QED
    BY <2>5, <2>6
<1> QED
  BY <1>14, <1>15, <1>16, <1>17 DEF IInv

\* What update_and_swap_whirlpool writes, the results of a loop, keeps the invariant
\* (swap_utils.rs).
LEMMA UpdateAndSwapStep ==
  ASSUME IInv, ~Idle, UpdateAndSwap PROVE IInv'
<1> USE DEF config, curve, fees, rewards
<1> DEFINE s == swap
           r == s.request
           paid == AmountPaid(s)
           received == AmountReceived(s)
<1>1. /\ s \in SwapState /\ TypeOK /\ PoolInv /\ SwapInv /\ SwapWithinLimits /\ r \in SwapRequest
      /\ ~Idle /\ Idle' /\ swap' = NoSwap
  BY DEF UpdateAndSwap, IInv, TypeOK, Idle, SwapState
<1>2. SwapInv' /\ SwapWithinLimits'
  BY <1>1 DEF SwapInv, SwapWithinLimits
<1>3. /\ s.amount_remaining \in U64 /\ s.amount_calculated \in U64
      /\ s.curr_sqrt_price \in U128 /\ s.curr_tick_index \in Int
      /\ s.curr_liquidity \in U128 /\ s.curr_protocol_fee \in U64
      /\ s.curr_growth \in U128 /\ s.ticks \in [UsableTicks -> Tick] /\ s.timestamp \in U64
      /\ r.amount \in U64
  BY <1>1 DEF SwapState, SwapRequest
<1>4. s.amount_remaining <= r.amount /\ s.timestamp >= reward_last_updated_timestamp
        /\ TickHoldsPrice(s.curr_tick_index, s.curr_sqrt_price)
  BY <1>1 DEF SwapWithinLimits, SwapInv
<1>5. paid \in Nat /\ received \in Nat
  <2>1. /\ s.amount_remaining \in Nat /\ s.amount_calculated \in Nat /\ r.amount \in Nat
    BY <1>3, WordsAreIntegers
  <2>2. r.amount - s.amount_remaining \in Nat
    BY <1>4, <2>1
  <2> QED
    BY <2>1, <2>2 DEF AmountPaid, AmountReceived, SpecifiedTotal
<1> DEFINE in  == InputToken(s)
           out == OutputToken(s)
<1>6. in \in Token /\ out \in Token /\ in # out
  BY DEF InputToken, OutputToken, Token
<1>7. /\ vault[in] + paid <= TokenSupply[in] /\ vault[out] >= received
      /\ vault' = [vault EXCEPT ![in] = vault[in] + paid, ![out] = vault[out] - received]
      /\ protocol_fee_owed' = [protocol_fee_owed EXCEPT
                                 ![in] = WrapU64(protocol_fee_owed[in] + s.curr_protocol_fee)]
      /\ fee_growth_global' = [fee_growth_global EXCEPT ![in] = s.curr_growth]
  <2>1. /\ vault[in] + paid <= TokenSupply[in] /\ vault[out] >= received
    BY DEF UpdateAndSwap, CanTransfer
  <2>2. vault' = [vault EXCEPT ![in] = @ + paid, ![out] = @ - received]
    BY DEF UpdateAndSwap
  <2>3. /\ protocol_fee_owed' = [protocol_fee_owed EXCEPT
                                   ![in] = WrapU64(@ + s.curr_protocol_fee)]
        /\ fee_growth_global' = [fee_growth_global EXCEPT ![in] = s.curr_growth]
    BY DEF UpdateAndSwap
  <2> HIDE DEF in, out, paid, received
  <2> QED
    BY <1>6, <2>1, <2>2, <2>3
<1> HIDE DEF in, out, paid, received
<1>8. vault' \in [Token -> U64]
  <2>1. /\ vault[in] \in U64 /\ vault[out] \in U64 /\ TokenSupply[in] \in U64
        /\ vault \in [Token -> U64]
    BY <1>1, <1>6, PoolAssumption DEF TypeOK
  <2> DEFINE x == vault[in]
             y == vault[out]
             z == TokenSupply[in]
  <2>2. x \in U64 /\ y \in U64 /\ z \in U64 /\ x + paid <= z /\ y >= received
    BY <1>7, <2>1
  <2> HIDE DEF x, y, z
  <2>3. TO_Q64 \in Int
    BY Widths
  <2>4. x + paid \in U64 /\ y - received \in U64
    BY <1>5, <2>2, <2>3 DEF U64
  <2> QED
    BY <1>7, <2>1, <2>4 DEF x, y
<1>9. protocol_fee_owed' \in [Token -> U64]
  <2>1. protocol_fee_owed[in] \in U64 /\ protocol_fee_owed \in [Token -> U64]
    BY <1>1, <1>6 DEF TypeOK
  <2>2. protocol_fee_owed[in] + s.curr_protocol_fee \in Int
    BY <1>3, <2>1, WordsAreIntegers
  <2>3. WrapU64(protocol_fee_owed[in] + s.curr_protocol_fee) \in U64
    BY <2>2, Conversions
  <2> QED
    BY <1>7, <2>1, <2>3
<1>10. fee_growth_global' \in [Token -> U128]
  BY <1>1, <1>3, <1>6, <1>7 DEF TypeOK
<1>11. RewardInfosAt(s.timestamp) \in [RewardIndex -> WhirlpoolRewardInfo]
  BY <1>1, <1>3, <1>4, RewardInfosAtType
<1>12. /\ tick_current_index' = s.curr_tick_index
       /\ sqrt_price' = s.curr_sqrt_price
       /\ liquidity' = s.curr_liquidity
       /\ reward_infos' = RewardInfosAt(s.timestamp)
       /\ reward_last_updated_timestamp' = s.timestamp
       /\ ticks' = s.ticks
       /\ UNCHANGED <<config, tick_arrays, positions, reward_vault>>
  BY DEF UpdateAndSwap
<1> HIDE DEF s
<1>13. TypeOK'
  BY <1>1, <1>3, <1>8, <1>9, <1>10, <1>11, <1>12 DEF TypeOK
<1>14. PoolInv'
  BY <1>1, <1>4, <1>12 DEF PoolInv, TickHoldsPrice
<1> QED
  BY <1>2, <1>13, <1>14 DEF IInv

\* A swap that is undone leaves the pool where it was.
LEMMA SwapUndoneStep ==
  ASSUME IInv, swap' = NoSwap,
         UNCHANGED <<config, curve, fees, rewards, tick_arrays, ticks, positions, vault,
                     reward_vault>>
  PROVE  IInv'
<1> USE DEF config, curve, fees, rewards
<1>1. Idle'
  BY DEF Idle
<1>2. TypeOK' /\ PoolInv'
  BY DEF IInv, TypeOK, PoolInv, TickHoldsPrice
<1>3. SwapInv' /\ SwapWithinLimits'
  BY <1>1 DEF SwapInv, SwapWithinLimits
<1> QED
  BY <1>2, <1>3 DEF IInv

\* The end of a swap keeps the invariant, whether it succeeds or fails.
LEMMA SwapEndStep ==
  ASSUME IInv, SwapCommit \/ SwapFail PROVE IInv'
BY UpdateAndSwapStep, SwapUndoneStep DEF SwapCommit, SwapFail

\* A step that changes nothing.
LEMMA StutteringStep ==
  ASSUME IInv, UNCHANGED vars PROVE IInv'
<1> USE DEF vars, config, curve, fees, rewards
<1>1. TypeOK' /\ PoolInv'
  BY DEF IInv, TypeOK, PoolInv, TickHoldsPrice
<1>2. SwapInv' /\ SwapWithinLimits'
  BY DEF IInv, SwapInv, SwapWithinLimits, Idle, TickHoldsPrice, CurrPrice
<1> QED
  BY <1>1, <1>2 DEF IInv

-----------------------------------------------------------------------------
(* The theorems. *)

\* IInv holds in every reachable state: every instruction, and every iteration
\* of the swap loop, keeps it.
THEOREM Invariance == Spec => []IInv
<1>1. Init => IInv
  BY InitStep
<1>2. IInv /\ [Next]_vars => IInv'
  <2>1. SUFFICES ASSUME IInv, [Next]_vars PROVE IInv'
    OBVIOUS
  <2>2. CASE UNCHANGED vars
    BY <2>1, <2>2, StutteringStep
  <2>3. CASE Next
    <3>1. CASE PositionNext
      BY <2>1, <3>1, PositionStep
    <3>2. CASE RewardNext
      BY <2>1, <3>2, RewardStep
    <3>3. CASE \/ ConfigNext \/ CollectProtocolFees
               \/ \E start \in MIN_ARRAY_START .. MAX_TICK_INDEX : InitializeTickArray(start)
      BY <2>1, <3>3, PoolStep
    <3>4. CASE \E r \in SwapRequests, timestamp \in Timestamps : SwapBegin(r, timestamp)
      BY <2>1, <3>4, SwapBeginStep
    <3>5. CASE SwapProgress
      BY <2>1, <3>5, SwapStepStep, SwapEndStep DEF SwapProgress
    <3> QED
      BY <2>3, <3>1, <3>2, <3>3, <3>4, <3>5 DEF Next
  <2> QED
    BY <2>1, <2>2, <2>3
<1> QED
  BY <1>1, <1>2, PTL DEF Spec

\* Every amount, growth, liquidity and price fits its word, whatever is asked of
\* the pool and in whatever order.
THEOREM TypeCorrectness == Spec => []TypeOK
<1>1. IInv => TypeOK
  BY DEF IInv
<1> QED
  BY <1>1, Invariance, PTL

\* The current tick and the price agree before, during and after every swap,
\* also when a tick is crossed, at the ends of the tick line, and when the price
\* does not move (swap_manager.rs:170-179).
THEOREM TickFollowsPrice == Spec => []PriceMatchesTick
<1>1. IInv => PriceMatchesTick
  BY DEF IInv, PoolInv, SwapInv, PriceMatchesTick, CurrTick, CurrPrice
<1> QED
  BY <1>1, Invariance, PTL

\* No iteration of a swap moves the price against the trade or past the trader's
\* limit, or uses more than the amount specified.
THEOREM SwapStaysWithinLimits == Spec => []SwapWithinLimits
<1>1. IInv => SwapWithinLimits
  BY DEF IInv
<1> QED
  BY <1>1, Invariance, PTL

-----------------------------------------------------------------------------
(* Rewards *)

\* Accruing growth leaves the rewards that have not been initialized alone
\* (next_whirlpool_reward_infos, whirlpool_manager.rs).
LEMMA AccrualKeepsUninitialized ==
  ASSUME TypeOK, NEW timestamp, NEW i \in RewardIndex
  PROVE  /\ RewardInfosAt(timestamp)[i].initialized <=> reward_infos[i].initialized
         /\ ~reward_infos[i].initialized => RewardInfosAt(timestamp)[i] = reward_infos[i]
<1>1. reward_infos[i] \in WhirlpoolRewardInfo
  BY DEF TypeOK
<1> QED
  BY <1>1 DEF RewardInfosAt, next_whirlpool_reward_infos, WhirlpoolRewardInfo

\* The order of the rewards outlasts whatever initializes none and leaves the
\* others' accumulators and vaults alone.
LEMMA OrderKept ==
  ASSUME RewardsInitializedInOrder,
         \A i \in RewardIndex :
           /\ reward_infos'[i].initialized <=> reward_infos[i].initialized
           /\ ~reward_infos[i].initialized =>
                /\ reward_infos'[i].growth_global_x64 = reward_infos[i].growth_global_x64
                /\ reward_vault'[i] = reward_vault[i]
  PROVE  RewardsInitializedInOrder'
<1>1. \A i \in RewardIndex : \A j \in 0 .. i : j \in RewardIndex
  BY RewardAssumption DEF RewardIndex
<1> QED
  BY <1>1 DEF RewardsInitializedInOrder

\* Accruing growth is such a step.
LEMMA AccrualKeepsOrder ==
  ASSUME TypeOK, RewardsInitializedInOrder, NEW timestamp,
         reward_infos' = RewardInfosAt(timestamp), reward_vault' = reward_vault
  PROVE  RewardsInitializedInOrder'
BY AccrualKeepsUninitialized, OrderKept

\* Each step keeps the order of the rewards.
LEMMA RewardOrderStep ==
  ASSUME IInv, RewardsInitializedInOrder, [Next]_vars
  PROVE  RewardsInitializedInOrder'
<1> USE DEF rewards
<1>1. TypeOK
  BY DEF IInv
<1>2. CASE UNCHANGED <<reward_infos, reward_vault>>
  BY <1>2, OrderKept
<1>3. CASE PositionNext
  <2>1. PICK p \in PositionIds :
        \/ \E range \in PositionRanges : OpenPosition(p, range[1], range[2])
        \/ \E amount \in LiquidityAmounts, timestamp \in Timestamps :
             \/ IncreaseLiquidity(p, amount, timestamp)
             \/ DecreaseLiquidity(p, amount, timestamp)
        \/ \E timestamp \in Timestamps : UpdateFeesAndRewards(p, timestamp)
        \/ CollectFees(p)
        \/ \E i \in RewardIndex : CollectReward(p, i)
        \/ ClosePosition(p)
    BY <1>3 DEF PositionNext
  <2>2. CASE \/ \E range \in PositionRanges : OpenPosition(p, range[1], range[2])
             \/ CollectFees(p) \/ ClosePosition(p)
    BY <1>2, <2>2 DEF OpenPosition, CollectFees, ClosePosition
  <2>3. ASSUME NEW amount, NEW timestamp,
               \/ IncreaseLiquidity(p, amount, timestamp)
               \/ DecreaseLiquidity(p, amount, timestamp)
        PROVE  RewardsInitializedInOrder'
    <3>1. reward_infos' = RewardInfosAt(timestamp) /\ reward_vault' = reward_vault
      BY <2>3 DEF IncreaseLiquidity, DecreaseLiquidity, ModifyLiquidity
    <3> QED
      BY <1>1, <3>1, AccrualKeepsOrder
  <2>4. ASSUME NEW timestamp, UpdateFeesAndRewards(p, timestamp)
        PROVE  RewardsInitializedInOrder'
    <3>1. reward_infos' = RewardInfosAt(timestamp) /\ reward_vault' = reward_vault
      BY <2>4 DEF UpdateFeesAndRewards
    <3> QED
      BY <1>1, <3>1, AccrualKeepsOrder
  <2>5. ASSUME NEW i \in RewardIndex, CollectReward(p, i)
        PROVE  RewardsInitializedInOrder'
    <3>1. /\ reward_infos' = reward_infos /\ reward_infos[i].initialized
          /\ \A j \in RewardIndex : j # i => reward_vault'[j] = reward_vault[j]
      BY <1>1, <2>5 DEF CollectReward, TypeOK
    <3> QED
      BY <3>1, OrderKept
  <2> QED
    BY <2>1, <2>2, <2>3, <2>4, <2>5
<1>4. CASE RewardNext
  <2>1. PICK i \in RewardIndex :
        \/ InitializeReward(i)
        \/ \E amount \in RewardDeposits : DepositReward(i, amount)
        \/ \E e \in EmissionRates, timestamp \in Timestamps : SetRewardEmissions(i, e, timestamp)
    BY <1>4 DEF RewardNext
  <2>2. CASE InitializeReward(i)
    <3>1. /\ ~reward_infos[i].initialized
          /\ \A j \in RewardIndex : j < i => reward_infos[j].initialized
          /\ reward_infos' = [reward_infos EXCEPT ![i].initialized = TRUE]
          /\ reward_vault' = reward_vault
      BY <2>2 DEF InitializeReward
    <3>2. /\ reward_infos'[i].initialized
          /\ \A j \in RewardIndex : j # i => reward_infos'[j] = reward_infos[j]
      <4>1. reward_infos[i] \in WhirlpoolRewardInfo /\ reward_infos \in [RewardIndex -> WhirlpoolRewardInfo]
        BY <1>1 DEF TypeOK
      <4> QED
        BY <3>1, <4>1 DEF WhirlpoolRewardInfo
    <3>3. ASSUME NEW k \in RewardIndex, reward_infos'[k].initialized, NEW j \in 0 .. k
          PROVE  reward_infos'[j].initialized
      <4>1. j \in RewardIndex /\ j \in Int /\ k \in Int /\ i \in Int /\ j <= k
        BY RewardAssumption DEF RewardIndex
      <4>2. CASE k = i
        BY <3>1, <3>2, <4>1, <4>2
      <4>3. CASE k # i
        BY <3>2, <3>3, <4>1, <4>3 DEF RewardsInitializedInOrder
      <4> QED
        BY <4>2, <4>3
    <3>4. ASSUME NEW k \in RewardIndex, ~reward_infos'[k].initialized
          PROVE  reward_infos'[k].growth_global_x64 = 0 /\ reward_vault'[k] = 0
      BY <3>1, <3>2, <3>4 DEF RewardsInitializedInOrder
    <3> QED
      BY <3>3, <3>4 DEF RewardsInitializedInOrder
  <2>3. ASSUME NEW amount, DepositReward(i, amount)
        PROVE  RewardsInitializedInOrder'
    <3>1. /\ reward_infos' = reward_infos /\ reward_infos[i].initialized
          /\ \A j \in RewardIndex : j # i => reward_vault'[j] = reward_vault[j]
      BY <1>1, <2>3 DEF DepositReward, TypeOK
    <3> QED
      BY <3>1, OrderKept
  <2>4. ASSUME NEW e \in EmissionRates, NEW timestamp \in Timestamps,
               SetRewardEmissions(i, e, timestamp)
        PROVE  RewardsInitializedInOrder'
    <3> DEFINE infos == RewardInfosAt(timestamp)
    <3>1. /\ reward_infos' = [infos EXCEPT ![i].emissions_per_second_x64 = e]
          /\ reward_vault' = reward_vault /\ reward_infos[i].initialized
      BY <2>4 DEF SetRewardEmissions
    <3>2. infos \in [RewardIndex -> WhirlpoolRewardInfo]
      BY <1>1, <2>4, PoolAssumption, RewardInfosAtType DEF SetRewardEmissions
    <3>3. \A j \in RewardIndex :
            /\ infos[j].initialized <=> reward_infos[j].initialized
            /\ ~reward_infos[j].initialized => infos[j] = reward_infos[j]
      BY <1>1, AccrualKeepsUninitialized
    <3> HIDE DEF infos
    <3>4. /\ \A j \in RewardIndex : j # i => reward_infos'[j] = infos[j]
          /\ reward_infos'[i].initialized <=> infos[i].initialized
      <4>1. infos[i] \in WhirlpoolRewardInfo
        BY <3>2
      <4> QED
        BY <3>1, <3>2, <4>1 DEF WhirlpoolRewardInfo
    <3> QED
      BY <3>1, <3>3, <3>4, OrderKept
  <2> QED
    BY <2>1, <2>2, <2>3, <2>4
<1>5. CASE \/ ConfigNext \/ CollectProtocolFees
           \/ \E start \in MIN_ARRAY_START .. MAX_TICK_INDEX : InitializeTickArray(start)
           \/ \E r \in SwapRequests, timestamp \in Timestamps : SwapBegin(r, timestamp)
  BY <1>2, <1>5 DEF ConfigNext, SetEnableFlag, SetFeeRate, SetProtocolFeeRate,
                    CollectProtocolFees, InitializeTickArray, SwapBegin
<1>6. CASE SwapStep \/ SwapFail
  BY <1>2, <1>6 DEF SwapStep, SwapFail
<1>7. CASE SwapCommit
  BY <1>1, <1>7, AccrualKeepsOrder DEF SwapCommit, UpdateAndSwap
<1>8. CASE UNCHANGED vars
  BY <1>2, <1>8 DEF vars
<1> QED
  BY <1>3, <1>4, <1>5, <1>6, <1>7, <1>8 DEF Next, SwapProgress

\* Rewards are initialized from index 0 upwards and stay initialized, and the
\* accumulator and the vault of one that is not are empty
\* (Whirlpool::initialize_reward, whirlpool.rs:193).
THEOREM RewardOrder == Spec => []RewardsInitializedInOrder
<1>1. Init => RewardsInitializedInOrder
  BY DEF Init, InitializePool, RewardsInitializedInOrder
<1>2. IInv /\ RewardsInitializedInOrder /\ [Next]_vars => RewardsInitializedInOrder'
  BY RewardOrderStep
<1> QED
  BY <1>1, <1>2, Invariance, PTL DEF Spec

-----------------------------------------------------------------------------
(* The enable flag *)

\* A swap runs only while the pool is enabled: the flag is checked when it
\* begins, and cannot change before it ends.
SwapEnabled == ~Idle => is_enabled

\* Each step keeps that.
LEMMA SwapEnabledStep ==
  ASSUME SwapEnabled, [Next]_vars PROVE SwapEnabled'
<1> USE DEF config
<1>1. CASE UNCHANGED <<swap, is_enabled>>
  BY <1>1 DEF SwapEnabled, Idle
<1>2. CASE PositionNext
  BY <1>1, <1>2 DEF PositionNext, OpenPosition, IncreaseLiquidity, DecreaseLiquidity,
                    UpdateFeesAndRewards, CollectFees, CollectReward, ClosePosition
<1>3. CASE RewardNext \/ CollectProtocolFees
           \/ \E start \in MIN_ARRAY_START .. MAX_TICK_INDEX : InitializeTickArray(start)
  BY <1>1, <1>3 DEF RewardNext, InitializeReward, DepositReward, SetRewardEmissions,
                    CollectProtocolFees, InitializeTickArray
<1>4. CASE ConfigNext
  BY <1>4 DEF ConfigNext, SetEnableFlag, SetFeeRate, SetProtocolFeeRate, SwapEnabled, Idle
<1>5. CASE \E r \in SwapRequests, timestamp \in Timestamps : SwapBegin(r, timestamp)
  BY <1>5 DEF SwapBegin, SwapEnabled
<1>6. CASE SwapStep
  BY <1>6 DEF SwapStep, SwapEnabled
<1>7. CASE SwapCommit \/ SwapFail
  BY <1>7 DEF SwapCommit, UpdateAndSwap, SwapFail, SwapEnabled, Idle
<1>8. CASE UNCHANGED vars
  BY <1>1, <1>8 DEF vars
<1> QED
  BY <1>2, <1>3, <1>4, <1>5, <1>6, <1>7, <1>8 DEF Next, SwapProgress

\* Paying out does not raise the balance of a vault.
LEMMA TransferToOwnerLowers ==
  ASSUME TypeOK, NEW amounts \in [Token -> U64], TransferToOwner(amounts), NEW x \in Token
  PROVE  vault'[x] <= vault[x]
<1>1. vault[x] \in U64 /\ amounts[x] \in U64
  BY DEF TypeOK
<1>2. vault'[x] = vault[x] - amounts[x]
  BY DEF TransferToOwner
<1> QED
  BY <1>1, <1>2, WordsAreIntegers

\* What a step leaves as it is while the pool is disabled.
LEMMA DisabledStep ==
  ASSUME IInv, SwapEnabled, [Next]_vars, ~is_enabled
  PROVE  /\ UNCHANGED <<curve, ticks>>
         /\ \A p \in PositionIds : positions'[p].state = positions[p].state
         /\ \A x \in Token : vault'[x] <= vault[x]
<1> USE DEF config, curve, fees, rewards
<1> DEFINE StandsStill ==
             /\ UNCHANGED <<curve, ticks>>
             /\ \A p \in PositionIds : positions'[p].state = positions[p].state
             /\ \A x \in Token : vault'[x] <= vault[x]
<1> SUFFICES StandsStill
  OBVIOUS
<1>1. TypeOK /\ Idle
  BY DEF IInv, SwapEnabled
<1>2. \A x \in Token : vault[x] <= vault[x]
  <2> TAKE x \in Token
  <2>1. vault[x] \in Int
    BY <1>1, WordsAreIntegers DEF TypeOK
  <2> QED
    BY <2>1
<1>3. CASE UNCHANGED <<curve, ticks, positions, vault>>
  BY <1>2, <1>3
<1>4. CASE PositionNext
  <2>1. PICK p \in PositionIds :
        \/ \E range \in PositionRanges : OpenPosition(p, range[1], range[2])
        \/ \E amount \in LiquidityAmounts, timestamp \in Timestamps :
             \/ IncreaseLiquidity(p, amount, timestamp)
             \/ DecreaseLiquidity(p, amount, timestamp)
        \/ \E timestamp \in Timestamps : UpdateFeesAndRewards(p, timestamp)
        \/ CollectFees(p)
        \/ \E i \in RewardIndex : CollectReward(p, i)
        \/ ClosePosition(p)
    BY <1>4 DEF PositionNext
  <2>2. positions \in [PositionIds -> Position] /\ positions[p] \in Position
    BY <1>1 DEF TypeOK
  <2>3. ASSUME NEW timestamp, UpdateFeesAndRewards(p, timestamp)
        PROVE  /\ UNCHANGED <<curve, ticks, vault>>
               /\ \A q \in PositionIds : positions'[q].state = positions[q].state
    <3> DEFINE u == PositionUpdate(positions[p], 0, RewardInfosAt(timestamp))
    <3>1. /\ positions' = [positions EXCEPT ![p] = u]
          /\ UNCHANGED <<curve, ticks, vault>>
      BY <2>3 DEF UpdateFeesAndRewards
    <3>2. u.state = positions[p].state
      BY <2>2 DEF PositionUpdate, next_position_modify_liquidity_update, Position
    <3> HIDE DEF u
    <3> QED
      BY <2>2, <3>1, <3>2
  <2>4. ASSUME CollectFees(p)
        PROVE  /\ UNCHANGED <<curve, ticks>>
               /\ \A q \in PositionIds : positions'[q].state = positions[q].state
               /\ \A x \in Token : vault'[x] <= vault[x]
    <3>1. positions[p].fee_owed \in [Token -> U64]
      BY <2>2 DEF Position
    <3>2. \A x \in Token : vault'[x] <= vault[x]
      BY <1>1, <2>4, <3>1, TransferToOwnerLowers DEF CollectFees
    <3>3. /\ positions' = [positions EXCEPT ![p].fee_owed = [x \in Token |-> 0]]
          /\ UNCHANGED <<curve, ticks>>
      BY <2>4 DEF CollectFees
    <3>4. \A q \in PositionIds : positions'[q].state = positions[q].state
      BY <2>2, <3>3 DEF Position
    <3> QED
      BY <3>2, <3>3, <3>4
  <2>5. ASSUME NEW i \in RewardIndex, CollectReward(p, i)
        PROVE  /\ UNCHANGED <<curve, ticks, vault>>
               /\ \A q \in PositionIds : positions'[q].state = positions[q].state
    <3> DEFINE rest == positions[p].amount_owed[i]
                       - CollectedReward(positions[p].amount_owed[i], reward_vault[i])
    <3>1. /\ positions' = [positions EXCEPT ![p].amount_owed[i] = rest]
          /\ UNCHANGED <<curve, ticks, vault>>
      BY <2>2, <2>5 DEF CollectReward, Position
    <3> HIDE DEF rest
    <3> QED
      BY <2>2, <3>1 DEF Position
  <2>6. CASE \/ \E range \in PositionRanges : OpenPosition(p, range[1], range[2])
             \/ \E amount \in LiquidityAmounts, timestamp \in Timestamps :
                  \/ IncreaseLiquidity(p, amount, timestamp)
                  \/ DecreaseLiquidity(p, amount, timestamp)
             \/ ClosePosition(p)
    BY <2>6 DEF OpenPosition, IncreaseLiquidity, DecreaseLiquidity, ClosePosition
  <2> QED
    BY <1>2, <2>1, <2>3, <2>4, <2>5, <2>6
<1>5. CASE RewardNext \/ ConfigNext
  BY <1>3, <1>5 DEF RewardNext, InitializeReward, DepositReward, SetRewardEmissions, ConfigNext,
     SetEnableFlag, SetFeeRate, SetProtocolFeeRate
<1>6. ASSUME NEW start \in MIN_ARRAY_START .. MAX_TICK_INDEX, InitializeTickArray(start)
      PROVE  StandsStill
  BY <1>3, <1>6 DEF InitializeTickArray
<1>7. ASSUME NEW r \in SwapRequests, NEW timestamp \in Timestamps, SwapBegin(r, timestamp)
      PROVE  StandsStill
  BY <1>3, <1>7 DEF SwapBegin
<1>8. CASE CollectProtocolFees
  <2>1. protocol_fee_owed \in [Token -> U64] /\ TransferToOwner(protocol_fee_owed)
    BY <1>1, <1>8 DEF CollectProtocolFees, TypeOK
  <2>2. \A x \in Token : vault'[x] <= vault[x]
    BY <1>1, <2>1, TransferToOwnerLowers
  <2> QED
    BY <1>8, <2>2 DEF CollectProtocolFees
<1>9. CASE SwapProgress
  BY <1>1, <1>9 DEF SwapProgress, SwapStep, SwapCommit, UpdateAndSwap, SwapFail
<1>10. CASE UNCHANGED vars
  BY <1>3, <1>10 DEF vars
<1> HIDE DEF StandsStill
<1>11. CASE Next
  <2>1. CASE \E start \in MIN_ARRAY_START .. MAX_TICK_INDEX : InitializeTickArray(start)
    BY <1>6, <2>1
  <2>2. CASE PositionNext
    BY <1>4, <2>2
  <2>3. CASE RewardNext \/ ConfigNext
    BY <1>5, <2>3
  <2>4. CASE CollectProtocolFees
    BY <1>8, <2>4
  <2>5. CASE \E r \in SwapRequests, timestamp \in Timestamps : SwapBegin(r, timestamp)
    BY <1>7, <2>5
  <2>6. CASE SwapProgress
    BY <1>9, <2>6
  <2> QED
    BY <1>11, <2>1, <2>2, <2>3, <2>4, <2>5, <2>6 DEF Next
<1> QED
  BY <1>10, <1>11

\* Nothing that can be done to a disabled pool moves its price, its liquidity or
\* its ticks, opens or closes a position, or pays into its vaults (whirlpool.rs:15
\* and the require_enabled of each instruction).
THEOREM DisabledPool == Spec => DisabledPoolStandsStill
<1>1. Init => SwapEnabled
  BY DEF Init, InitializePool, SwapEnabled, Idle
<1>2. SwapEnabled /\ [Next]_vars => SwapEnabled'
  BY SwapEnabledStep
<1>3. IInv /\ SwapEnabled /\ [Next]_vars =>
        [ ~is_enabled => /\ UNCHANGED <<curve, ticks>>
                         /\ \A p \in PositionIds : positions'[p].state = positions[p].state
                         /\ \A x \in Token : vault'[x] <= vault[x] ]_vars
  BY DisabledStep
<1> QED
  BY <1>1, <1>2, <1>3, Invariance, PTL DEF Spec, DisabledPoolStandsStill

-----------------------------------------------------------------------------
(* One pool, as an instruction that runs several swaps sees it.            *)

\* The locals of a swap are not those of no swap.
LEMMA SwapStateNotIdle ==
  ASSUME NEW s \in SwapState PROVE s # NoSwap
<1>1. "timestamp" \in DOMAIN s
  BY DEF SwapState
<1>2. "timestamp" \notin DOMAIN NoSwap
  BY DEF NoSwap
<1> QED
  BY <1>1, <1>2

\* The locals a swap starts with.
LEMMA StartedSwapType ==
  ASSUME TypeOK, NEW r \in SwapRequest, NEW timestamp \in U64
  PROVE  StartedSwap(r, timestamp) \in SwapState /\ StartedSwap(r, timestamp).request = r
<1> USE DEF StartedSwap
<1>1. 0 \in U64
  BY Widths DEF U64
<1>2. fee_growth_global[IF r.a_to_b THEN "a" ELSE "b"] \in U128
  BY DEF TypeOK, Token
<1> QED
  BY <1>1, <1>2 DEF SwapState, SwapRequest, TypeOK

\* A running swap has paid and received words, of which the one that was specified
\* is within its amount (swap_manager.rs).
LEMMA SwapAmounts ==
  ASSUME IInv, ~Idle
  PROVE  /\ swap.request \in SwapRequest
         /\ AmountPaid(swap) \in U64 /\ AmountReceived(swap) \in U64
         /\ swap.request.is_input => AmountPaid(swap) <= swap.request.amount
         /\ ~swap.request.is_input => AmountReceived(swap) <= swap.request.amount
<1> DEFINE s == swap
<1>1. s \in SwapState /\ s.amount_remaining <= s.request.amount
  BY DEF IInv, TypeOK, Idle, SwapWithinLimits
<1>2. /\ s.request \in SwapRequest /\ s.amount_remaining \in U64 /\ s.amount_calculated \in U64
      /\ s.request.amount \in U64
  BY <1>1 DEF SwapState, SwapRequest
<1> DEFINE total == s.request.amount - s.amount_remaining
<1>3. total \in U64 /\ total <= s.request.amount
  <2>1. TO_Q64 \in Int
    BY Widths
  <2> HIDE DEF s
  <2> QED
    BY <1>1, <1>2, <2>1 DEF U64
<1> QED
  BY <1>2, <1>3 DEF AmountPaid, AmountReceived, SpecifiedTotal

\* An iteration keeps the request of its swap.
LEMMA IterationKeepsRequest ==
  ASSUME IInv, SwapStep
  PROVE  /\ ~Idle /\ LoopContinues(swap) /\ ~Idle' /\ swap'.request = swap.request
         /\ swap' \in SwapState
<1>1. ~Idle /\ LoopContinues(swap) /\ swap \in SwapState
  BY DEF SwapStep, IInv, TypeOK, Idle
<1>2. PICK c : swap' = [swap EXCEPT
           !.amount_remaining  = @ - SpecifiedAmount(swap, c),
           !.amount_calculated = @ + OtherAmount(swap, c),
           !.curr_protocol_fee = StepFees(swap, c).protocol_fee,
           !.curr_growth       = StepFees(swap, c).growth,
           !.curr_liquidity    = LiquidityAfter(swap, c),
           !.ticks             = TicksAfter(swap, c),
           !.curr_array_index  = ArrayAfter(swap, c),
           !.curr_tick_index   = TickAfter(swap, c),
           !.curr_sqrt_price   = c.next_price]
  BY DEF SwapStep
<1>3. swap'.request = swap.request /\ "timestamp" \in DOMAIN swap'
  BY <1>1, <1>2 DEF SwapState
<1>4. "timestamp" \notin DOMAIN NoSwap
  BY DEF NoSwap
<1>5. ~Idle'
  BY <1>3, <1>4 DEF Idle
<1>6. TypeOK'
  BY SwapStepStep DEF IInv
<1> QED
  BY <1>1, <1>3, <1>5, <1>6 DEF TypeOK, Idle

-----------------------------------------------------------------------------
(* Sums over the positions *)

Amounts == [PositionIds -> Int]

\* The sums of the first positions, as Sum computes them.
Partial(f) ==
  LET partial[n \in 0 .. NumPositions] == IF n = 0 THEN 0 ELSE partial[n - 1] + f[n]
  IN  partial

\* A set that holds 0, and with n also n + 1 up to NumPositions, holds all of
\* 0 .. NumPositions.
LEMMA CountPositions ==
  ASSUME NEW S, 0 \in S, \A n \in 0 .. NumPositions : n \in S /\ n < NumPositions => n + 1 \in S
  PROVE  \A n \in 0 .. NumPositions : n \in S
<1> DEFINE Missing == {n \in 0 .. NumPositions : n \notin S}
<1>1. NumPositions \in Nat
  BY PoolAssumption
<1>2. ASSUME Missing # {} PROVE FALSE
  <2>1. Missing \in SUBSET Nat
    BY <1>1
  <2> HIDE DEF Missing
  <2>2. PICK n \in Missing : \A m \in Missing : n <= m
    BY <1>2, <2>1, NatMin
  <2>3. n \in 0 .. NumPositions /\ n \notin S
    BY <2>2 DEF Missing
  <2>4. n - 1 \in 0 .. NumPositions /\ n - 1 < NumPositions /\ (n - 1) + 1 = n /\ ~(n <= n - 1)
    BY <1>1, <2>3
  <2>5. n - 1 \in S
    BY <2>2, <2>4 DEF Missing
  <2> QED
    BY <2>3, <2>4, <2>5
<1> QED
  BY <1>2

\* The recursive definition of the partial sums has a solution.
LEMMA PartialExists ==
  ASSUME NEW f
  PROVE  \E g : g = [n \in 0 .. NumPositions |-> IF n = 0 THEN 0 ELSE g[n - 1] + f[n]]
<1> DEFINE Solves(g, m) == g = [n \in 0 .. m |-> IF n = 0 THEN 0 ELSE g[n - 1] + f[n]]
           S == {m \in 0 .. NumPositions : \E g : Solves(g, m)}
<1>1. NumPositions \in Nat
  BY PoolAssumption
<1>2. 0 \in S
  <2> DEFINE g == [n \in 0 .. 0 |-> 0]
  <2>1. g = [n \in 0 .. 0 |-> IF n = 0 THEN 0 ELSE g[n - 1] + f[n]]
    OBVIOUS
  <2>2. Solves(g, 0)
    BY <2>1
  <2> HIDE DEF g, Solves
  <2> QED
    BY <1>1, <2>2
<1>3. ASSUME NEW m \in 0 .. NumPositions, m \in S, m < NumPositions PROVE m + 1 \in S
  <2>1. PICK g : Solves(g, m)
    BY <1>3
  <2> DEFINE h == [n \in 0 .. (m + 1) |-> IF n = m + 1 THEN g[m] + f[m + 1] ELSE g[n]]
             k == [n \in 0 .. (m + 1) |-> IF n = 0 THEN 0 ELSE h[n - 1] + f[n]]
  <2>2. \A n \in 0 .. m : g[n] = IF n = 0 THEN 0 ELSE g[n - 1] + f[n]
    BY <2>1
  <2>3. ASSUME NEW n \in 0 .. (m + 1) PROVE h[n] = k[n]
    <3>1. CASE n = m + 1
      <4>1. n - 1 = m /\ m \in 0 .. (m + 1) /\ m # m + 1 /\ n # 0
        BY <3>1
      <4>2. h[n] = g[m] + f[n] /\ h[m] = g[m]
        BY <3>1, <4>1
      <4>3. k[n] = h[n - 1] + f[n]
        BY <4>1
      <4> QED
        BY <4>1, <4>2, <4>3
    <3>2. CASE n # m + 1
      <4>1. n \in 0 .. m
        BY <3>2
      <4>2. h[n] = IF n = 0 THEN 0 ELSE g[n - 1] + f[n]
        BY <2>2, <3>2, <4>1
      <4>3. n # 0 => h[n - 1] = g[n - 1]
        BY <4>1
      <4>4. k[n] = IF n = 0 THEN 0 ELSE h[n - 1] + f[n]
        OBVIOUS
      <4> QED
        BY <4>2, <4>3, <4>4
    <3> QED
      BY <3>1, <3>2
  <2>4. h = k
    BY <2>3
  <2>5. Solves(h, m + 1)
    BY <2>4
  <2>6. \E x : Solves(x, m + 1)
    <3> HIDE DEF h, k, Solves
    <3> QED
      BY <2>5
  <2>7. m + 1 \in 0 .. NumPositions
    BY <1>1, <1>3
  <2> QED
    BY <2>6, <2>7
<1>4. NumPositions \in S
  <2> HIDE DEF S
  <2> QED
    BY <1>1, <1>2, <1>3, CountPositions
<1> QED
  BY <1>4

\* What the partial sums are, and that Sum is the last of them.
LEMMA PartialSums ==
  ASSUME NEW f
  PROVE  /\ Partial(f)[0] = 0
         /\ \A n \in 0 .. NumPositions :
              n < NumPositions => Partial(f)[n + 1] = Partial(f)[n] + f[n + 1]
         /\ Sum(f) = Partial(f)[NumPositions]
<1> DEFINE g == Partial(f)
<1>1. NumPositions \in Nat
  BY PoolAssumption
<1>2. g = [n \in 0 .. NumPositions |-> IF n = 0 THEN 0 ELSE g[n - 1] + f[n]]
  BY PartialExists DEF Partial
<1> HIDE DEF g
<1>3. \A n \in 0 .. NumPositions : g[n] = IF n = 0 THEN 0 ELSE g[n - 1] + f[n]
  BY <1>2
<1>4. g[0] = 0
  BY <1>1, <1>3
<1>5. ASSUME NEW n \in 0 .. NumPositions, n < NumPositions PROVE g[n + 1] = g[n] + f[n + 1]
  <2>1. n + 1 \in 0 .. NumPositions /\ n + 1 # 0 /\ (n + 1) - 1 = n
    BY <1>1, <1>5
  <2> QED
    BY <1>3, <2>1
<1>6. Sum(f) = Partial(f)[NumPositions]
  BY DEF Sum, Partial
<1> QED
  BY <1>4, <1>5, <1>6 DEF g

\* Sums of integers are integers.
LEMMA SumOfInts ==
  ASSUME NEW f \in Amounts
  PROVE  Sum(f) \in Int /\ \A n \in 0 .. NumPositions : Partial(f)[n] \in Int
<1> DEFINE S == {n \in 0 .. NumPositions : Partial(f)[n] \in Int}
<1>1. NumPositions \in Nat
  BY PoolAssumption
<1>2. 0 \in S
  BY <1>1, PartialSums
<1>3. ASSUME NEW n \in 0 .. NumPositions, n \in S, n < NumPositions PROVE n + 1 \in S
  <2>1. n + 1 \in 0 .. NumPositions /\ n + 1 \in PositionIds
    BY <1>1, <1>3 DEF PositionIds
  <2>2. Partial(f)[n + 1] = Partial(f)[n] + f[n + 1]
    BY <1>3, PartialSums
  <2>3. f[n + 1] \in Int
    BY <2>1 DEF Amounts
  <2> QED
    BY <1>3, <2>1, <2>2, <2>3
<1>4. \A n \in 0 .. NumPositions : n \in S
  <2> HIDE DEF S
  <2> QED
    BY <1>2, <1>3, CountPositions
<1> QED
  BY <1>1, <1>4, PartialSums

\* The sum of sums is the sum of the summands.
LEMMA SumAdds ==
  ASSUME NEW f \in Amounts, NEW g \in Amounts, NEW h \in Amounts,
         \A p \in PositionIds : h[p] = f[p] + g[p]
  PROVE  Sum(h) = Sum(f) + Sum(g)
<1> DEFINE F == Partial(f)
           G == Partial(g)
           H == Partial(h)
           S == {n \in 0 .. NumPositions : H[n] = F[n] + G[n]}
<1>1. NumPositions \in Nat
  BY PoolAssumption
<1>2. /\ F[0] = 0 /\ G[0] = 0 /\ H[0] = 0
      /\ \A n \in 0 .. NumPositions :
           n < NumPositions => /\ F[n + 1] = F[n] + f[n + 1]
                               /\ G[n + 1] = G[n] + g[n + 1]
                               /\ H[n + 1] = H[n] + h[n + 1]
      /\ \A n \in 0 .. NumPositions : F[n] \in Int /\ G[n] \in Int /\ H[n] \in Int
  BY PartialSums, SumOfInts
<1>3. Sum(f) = F[NumPositions] /\ Sum(g) = G[NumPositions] /\ Sum(h) = H[NumPositions]
  BY PartialSums
<1> HIDE DEF F, G, H
<1>4. 0 \in S
  BY <1>1, <1>2
<1>5. ASSUME NEW n \in 0 .. NumPositions, n \in S, n < NumPositions PROVE n + 1 \in S
  <2>1. n + 1 \in 0 .. NumPositions /\ n + 1 \in PositionIds
    BY <1>1, <1>5 DEF PositionIds
  <2>2. f[n + 1] \in Int /\ g[n + 1] \in Int /\ h[n + 1] = f[n + 1] + g[n + 1]
    BY <2>1 DEF Amounts
  <2>3. H[n] = F[n] + G[n]
    BY <1>5
  <2>4. H[n + 1] = F[n + 1] + G[n + 1]
    BY <1>2, <1>5, <2>2, <2>3
  <2> QED
    BY <2>1, <2>4
<1>6. \A n \in 0 .. NumPositions : n \in S
  <2> HIDE DEF S
  <2> QED
    BY <1>4, <1>5, CountPositions
<1> QED
  BY <1>1, <1>3, <1>6

\* A sum of nothing is nothing.
LEMMA SumOfZeros ==
  ASSUME NEW f \in Amounts, \A p \in PositionIds : f[p] = 0
  PROVE  Sum(f) = 0
<1>1. \A p \in PositionIds : f[p] = f[p] + f[p]
  OBVIOUS
<1>2. Sum(f) = Sum(f) + Sum(f)
  BY <1>1, SumAdds
<1> QED
  BY <1>2, SumOfInts

\* When one summand changes, the sum changes by as much.
LEMMA SumOfOneChange ==
  ASSUME NEW f \in Amounts, NEW g \in Amounts, NEW p \in PositionIds,
         \A q \in PositionIds : q # p => g[q] = f[q]
  PROVE  Sum(g) = Sum(f) + (g[p] - f[p])
<1> DEFINE d == g[p] - f[p]
           F == Partial(f)
           G == Partial(g)
           S == {n \in 0 .. NumPositions : G[n] = IF n < p THEN F[n] ELSE F[n] + d}
<1>1. NumPositions \in Nat /\ p \in Nat /\ 0 < p /\ p <= NumPositions
  BY PoolAssumption DEF PositionIds
<1>2. /\ F[0] = 0 /\ G[0] = 0
      /\ \A n \in 0 .. NumPositions :
           n < NumPositions => F[n + 1] = F[n] + f[n + 1] /\ G[n + 1] = G[n] + g[n + 1]
      /\ \A n \in 0 .. NumPositions : F[n] \in Int /\ G[n] \in Int
  BY PartialSums, SumOfInts
<1>3. Sum(f) = F[NumPositions] /\ Sum(g) = G[NumPositions]
  BY PartialSums
<1>4. d \in Int /\ f[p] \in Int /\ g[p] \in Int /\ g[p] = f[p] + d
  BY DEF Amounts
<1> HIDE DEF F, G, d
<1>5. 0 \in S
  BY <1>1, <1>2
<1>6. ASSUME NEW n \in 0 .. NumPositions, n \in S, n < NumPositions PROVE n + 1 \in S
  <2>1. n + 1 \in 0 .. NumPositions /\ n + 1 \in PositionIds
    BY <1>1, <1>6 DEF PositionIds
  <2>2. f[n + 1] \in Int /\ g[n + 1] \in Int /\ (n + 1 # p => g[n + 1] = f[n + 1])
    BY <2>1 DEF Amounts
  <2>3. G[n] = IF n < p THEN F[n] ELSE F[n] + d
    BY <1>6
  <2>4. /\ F[n + 1] = F[n] + f[n + 1] /\ G[n + 1] = G[n] + g[n + 1]
        /\ F[n] \in Int /\ G[n] \in Int
    BY <1>2, <1>6
  <2>5. G[n + 1] = IF n + 1 < p THEN F[n + 1] ELSE F[n + 1] + d
    <3>1. CASE n + 1 = p
      BY <1>1, <1>4, <2>2, <2>3, <2>4, <3>1
    <3>2. CASE n + 1 # p
      BY <1>1, <1>4, <2>2, <2>3, <2>4, <3>2
    <3> QED
      BY <3>1, <3>2
  <2> QED
    BY <2>1, <2>5
<1>7. \A n \in 0 .. NumPositions : n \in S
  <2> HIDE DEF S
  <2> QED
    BY <1>5, <1>6, CountPositions
<1>8. G[NumPositions] = F[NumPositions] + d
  BY <1>1, <1>7
<1> QED
  BY <1>3, <1>8 DEF d

\* A sum of amounts none of which is negative is at least each of them.
LEMMA SumAtLeast ==
  ASSUME NEW f \in [PositionIds -> Nat], NEW p \in PositionIds
  PROVE  f[p] <= Sum(f)
<1> DEFINE F == Partial(f)
           S == {n \in 0 .. NumPositions : 0 <= F[n] /\ (p <= n => f[p] <= F[n])}
<1>1. NumPositions \in Nat /\ p \in Nat /\ 0 < p /\ p <= NumPositions
  BY PoolAssumption DEF PositionIds
<1>2. f \in Amounts
  BY DEF Amounts
<1>3. /\ F[0] = 0
      /\ \A n \in 0 .. NumPositions : n < NumPositions => F[n + 1] = F[n] + f[n + 1]
      /\ \A n \in 0 .. NumPositions : F[n] \in Int
      /\ Sum(f) = F[NumPositions]
  BY <1>2, PartialSums, SumOfInts
<1> HIDE DEF F
<1>4. 0 \in S
  BY <1>1, <1>3
<1>5. ASSUME NEW n \in 0 .. NumPositions, n \in S, n < NumPositions PROVE n + 1 \in S
  <2>1. n + 1 \in 0 .. NumPositions /\ n + 1 \in PositionIds
    BY <1>1, <1>5 DEF PositionIds
  <2>2. /\ f[n + 1] \in Nat /\ f[p] \in Nat /\ F[n] \in Int /\ F[n + 1] = F[n] + f[n + 1]
        /\ 0 <= F[n] /\ (p <= n => f[p] <= F[n])
    BY <1>3, <1>5, <2>1
  <2>3. p <= n + 1 => p <= n \/ p = n + 1
    BY <1>1
  <2> QED
    BY <2>1, <2>2, <2>3
<1>6. \A n \in 0 .. NumPositions : n \in S
  <2> HIDE DEF S
  <2> QED
    BY <1>4, <1>5, CountPositions
<1> QED
  BY <1>1, <1>3, <1>6

-----------------------------------------------------------------------------
(* The book of a pool whose positions are pos: its liquidity, at a tick, and *)
(* the liquidity its ticks hold.                                             *)

RangeShare(pos, t) ==
  [p \in PositionIds |-> IF InRange(pos[p], t) THEN pos[p].liquidity ELSE 0]

LowerShare(pos, t) ==
  [p \in PositionIds |-> IF pos[p].tick_lower_index = t THEN pos[p].liquidity ELSE 0]

UpperShare(pos, t) ==
  [p \in PositionIds |-> IF pos[p].tick_upper_index = t THEN pos[p].liquidity ELSE 0]

TickBooked(pos, t, tick) ==
  /\ tick.liquidity_gross = Sum(LowerShare(pos, t)) + Sum(UpperShare(pos, t))
  /\ tick.liquidity_net = Sum(LowerShare(pos, t)) - Sum(UpperShare(pos, t))
  /\ tick.initialized <=> tick.liquidity_gross > 0

Booked(pos, current_liquidity, current_tick, all_ticks) ==
  /\ current_liquidity = Sum(RangeShare(pos, current_tick))
  /\ \A t \in UsableTicks : TickBooked(pos, t, all_ticks[t])

\* An open position has a range, and only an open one has liquidity.
RangesSound(pos) ==
  \A p \in PositionIds :
    IF pos[p].state = "open"
    THEN /\ pos[p].tick_lower_index \in UsableTicks
         /\ pos[p].tick_upper_index \in UsableTicks
         /\ pos[p].tick_lower_index < pos[p].tick_upper_index
    ELSE pos[p].liquidity = 0

AllPositions == [PositionIds -> Position]

\* The shares are amounts, none of which is negative.
LEMMA ShareTypes ==
  ASSUME NEW pos \in AllPositions, NEW t \in Int
  PROVE  /\ RangeShare(pos, t) \in [PositionIds -> Nat] /\ RangeShare(pos, t) \in Amounts
         /\ LowerShare(pos, t) \in [PositionIds -> Nat] /\ LowerShare(pos, t) \in Amounts
         /\ UpperShare(pos, t) \in [PositionIds -> Nat] /\ UpperShare(pos, t) \in Amounts
<1>1. \A p \in PositionIds : pos[p].liquidity \in Nat
  BY DEF AllPositions, Position, U128
<1>2. \A f \in [PositionIds -> Nat] : f \in Amounts
  BY DEF Amounts
<1>3. RangeShare(pos, t) \in [PositionIds -> Nat]
  BY <1>1 DEF RangeShare
<1>4. LowerShare(pos, t) \in [PositionIds -> Nat]
  BY <1>1 DEF LowerShare
<1>5. UpperShare(pos, t) \in [PositionIds -> Nat]
  BY <1>1 DEF UpperShare
<1> QED
  BY <1>2, <1>3, <1>4, <1>5

\* No position with liquidity begins or ends at a tick that is not initialized.
LEMMA NoBoundary ==
  ASSUME NEW pos \in AllPositions, NEW t \in UsableTicks, NEW tick \in Tick,
         TickBooked(pos, t, tick), ~tick.initialized, NEW p \in PositionIds,
         pos[p].liquidity > 0
  PROVE  pos[p].tick_lower_index # t /\ pos[p].tick_upper_index # t
<1> DEFINE L == LowerShare(pos, t)
           U == UpperShare(pos, t)
<1>1. t \in Int
  BY ArrayTypes
<1>2. L \in [PositionIds -> Nat] /\ U \in [PositionIds -> Nat] /\ Sum(L) \in Int /\ Sum(U) \in Int
  BY <1>1, ShareTypes, SumOfInts
<1>3. tick.liquidity_gross \in Int /\ 0 <= tick.liquidity_gross
  BY DEF Tick, U128
<1>4. Sum(L) + Sum(U) <= 0
  BY <1>2, <1>3 DEF TickBooked
<1>5. L[p] <= Sum(L) /\ U[p] <= Sum(U) /\ L[p] \in Nat /\ U[p] \in Nat
  BY <1>2, SumAtLeast
<1>6. L[p] = 0 /\ U[p] = 0
  BY <1>2, <1>4, <1>5
<1>7. /\ L[p] = IF pos[p].tick_lower_index = t THEN pos[p].liquidity ELSE 0
      /\ U[p] = IF pos[p].tick_upper_index = t THEN pos[p].liquidity ELSE 0
  BY DEF LowerShare, UpperShare
<1> HIDE DEF L, U
<1> QED
  BY <1>6, <1>7

\* Moving past no initialized tick leaves every position in or out of range.
LEMMA NothingPassed ==
  ASSUME NEW pos \in AllPositions, RangesSound(pos), NEW all_ticks \in [UsableTicks -> Tick],
         \A t \in UsableTicks : TickBooked(pos, t, all_ticks[t]),
         NEW low \in Int, NEW high \in Int,
         \A t \in UsableTicks : low < t /\ t <= high => ~all_ticks[t].initialized,
         low <= high
  PROVE  RangeShare(pos, low) = RangeShare(pos, high)
<1>1. ASSUME NEW p \in PositionIds PROVE RangeShare(pos, low)[p] = RangeShare(pos, high)[p]
  <2> DEFINE lower == pos[p].tick_lower_index
             upper == pos[p].tick_upper_index
             L     == pos[p].liquidity
  <2>1. /\ RangeShare(pos, low)[p] = IF lower <= low /\ low < upper THEN L ELSE 0
        /\ RangeShare(pos, high)[p] = IF lower <= high /\ high < upper THEN L ELSE 0
    BY DEF RangeShare, InRange
  <2>2. lower \in Int /\ upper \in Int /\ L \in Nat
    BY DEF AllPositions, Position, U128
  <2>3. CASE L = 0
    BY <2>1, <2>3
  <2>4. CASE L > 0
    <3>1. lower \in UsableTicks /\ upper \in UsableTicks
      BY <2>4 DEF RangesSound
    <3>2. ASSUME low < lower, lower <= high PROVE FALSE
      BY <2>4, <3>1, <3>2, NoBoundary
    <3>3. ASSUME low < upper, upper <= high PROVE FALSE
      BY <2>4, <3>1, <3>3, NoBoundary
    <3> HIDE DEF lower, upper, L
    <3> QED
      BY <2>1, <2>2, <3>2, <3>3
  <2> QED
    BY <2>2, <2>3, <2>4
<1> QED
  BY <1>1 DEF RangeShare

\* The liquidity in range changes at a tick by that of the positions which
\* begin there, less that of those which end there.
LEMMA LiquidityAcross ==
  ASSUME NEW pos \in AllPositions, RangesSound(pos), NEW t \in Int
  PROVE  Sum(RangeShare(pos, t))
           = Sum(RangeShare(pos, t - 1)) + (Sum(LowerShare(pos, t)) - Sum(UpperShare(pos, t)))
<1> DEFINE before == RangeShare(pos, t - 1)
           after  == RangeShare(pos, t)
           L      == LowerShare(pos, t)
           U      == UpperShare(pos, t)
           both   == [p \in PositionIds |-> before[p] + L[p]]
<1>1. before \in Amounts /\ after \in Amounts /\ L \in Amounts /\ U \in Amounts
  BY ShareTypes
<1>2. /\ both \in Amounts
      /\ Sum(before) \in Int /\ Sum(after) \in Int /\ Sum(L) \in Int /\ Sum(U) \in Int
  BY <1>1, SumOfInts DEF Amounts
<1>3. \A p \in PositionIds : both[p] = before[p] + L[p]
  OBVIOUS
<1>4. ASSUME NEW p \in PositionIds PROVE both[p] = after[p] + U[p]
  <2> DEFINE lower == pos[p].tick_lower_index
             upper == pos[p].tick_upper_index
             l     == pos[p].liquidity
  <2>1. /\ before[p] = IF lower <= t - 1 /\ t - 1 < upper THEN l ELSE 0
        /\ after[p] = IF lower <= t /\ t < upper THEN l ELSE 0
        /\ L[p] = IF lower = t THEN l ELSE 0
        /\ U[p] = IF upper = t THEN l ELSE 0
    BY DEF RangeShare, InRange, LowerShare, UpperShare
  <2>2. lower \in Int /\ upper \in Int /\ l \in Nat
    BY DEF AllPositions, Position, U128
  <2>3. l = 0 \/ lower < upper
    BY DEF RangesSound
  <2> HIDE DEF before, after, L, U, lower, upper, l
  <2> QED
    BY <1>3, <2>1, <2>2, <2>3
<1> HIDE DEF before, after, L, U, both
<1>5. Sum(both) = Sum(before) + Sum(L)
  BY <1>1, <1>2, <1>3, SumAdds
<1>6. Sum(both) = Sum(after) + Sum(U)
  BY <1>1, <1>2, <1>4, SumAdds
<1>7. Sum(after) = Sum(before) + (Sum(L) - Sum(U))
  <2> DEFINE a == Sum(after)  b == Sum(before)  l == Sum(L)  u == Sum(U)
  <2>1. a \in Int /\ b \in Int /\ l \in Int /\ u \in Int /\ b + l = a + u
    BY <1>2, <1>5, <1>6
  <2> HIDE DEF a, b, l, u
  <2>2. a = b + (l - u)
    BY <2>1
  <2> QED
    BY <2>2 DEF a, b, l, u
<1> QED
  BY <1>7 DEF before, after, L, U

-----------------------------------------------------------------------------
(* The invariant.  While a swap runs there are two books to keep: the one of  *)
(* the account, to which the pool returns if the swap fails, and the one of   *)
(* the loop's locals, which the account takes over if it succeeds.            *)

AccountBooked == Booked(positions, liquidity, tick_current_index, ticks)

SwapBooked ==
  ~Idle => Booked(positions, swap.curr_liquidity, swap.curr_tick_index, swap.ticks)

Book == RangesSound(positions) /\ AccountBooked /\ SwapBooked

BookIInv == IInv /\ Book

-----------------------------------------------------------------------------
(* An iteration of the swap loop *)

\* An iteration that does not reach the tick it heads for ends between that tick
\* and the one it started from (swap_manager.rs:170-179).
LEMMA TickNotPassed ==
  ASSUME IInv, NEW c, StepComputed(swap, c), ~ReachesTick(swap, c)
  PROVE  /\ TickAfter(swap, c) \in Int
         /\ IF swap.request.a_to_b
            THEN /\ NextInitTick(swap).tick_index <= TickAfter(swap, c)
                 /\ TickAfter(swap, c) <= swap.curr_tick_index
            ELSE /\ swap.curr_tick_index <= TickAfter(swap, c)
                 /\ TickAfter(swap, c) < NextInitTick(swap).tick_index
<1> DEFINE a_to_b == swap.request.a_to_b
           n == NextInitTick(swap).tick_index
           t == swap.curr_tick_index
           p == swap.curr_sqrt_price
           q == c.next_price
           u == tick_index_from_sqrt_price(q)
           limit  == swap.request.sqrt_price_limit
           target == SqrtPriceTarget(SqrtPrice[n], limit, a_to_b)
<1>1. /\ n \in TickIndices /\ p \in PriceRange /\ q \in PriceRange
      /\ IF a_to_b THEN n <= t ELSE n > t
      /\ IF a_to_b THEN target <= q /\ q <= p ELSE p <= q /\ q <= target
      /\ q # SqrtPrice[n] /\ ~Idle
  BY DEF StepComputed, ReachesTick
<1>2. TickAfter(swap, c) = IF q # p THEN u ELSE t
  BY DEF TickAfter
<1>3. swap \in SwapState
  BY <1>1 DEF IInv, TypeOK, Idle
<1>4. a_to_b \in BOOLEAN /\ t \in Int /\ limit \in U128
  BY <1>3 DEF SwapState, SwapRequest
<1>5. TickHoldsPrice(t, p)
  BY <1>1 DEF IInv, SwapInv
<1>6. /\ u \in TickIndices /\ SqrtPrice[u] <= q
      /\ u < MAX_TICK_INDEX => q < SqrtPrice[u + 1]
  BY <1>1, TickOfPrice
<1>7. /\ PriceRange \subseteq Int /\ U128 \subseteq Int
      /\ \A v \in TickIndices : SqrtPrice[v] \in PriceRange /\ v \in Int
      /\ MIN_TICK_INDEX \in Int /\ MAX_TICK_INDEX \in Int
      /\ \A v \in TickIndices : MIN_TICK_INDEX <= v /\ v <= MAX_TICK_INDEX
  BY PriceBounds, Widths, TickRangeAssumption DEF TickIndices
<1>8. a_to_b => SqrtPrice[n] <= target
  <2>1. SqrtPrice[n] \in Int /\ limit \in Int
    BY <1>1, <1>4, <1>7
  <2> QED
    BY <2>1 DEF SqrtPriceTarget, Upper
<1>9. ~a_to_b => target <= SqrtPrice[n]
  <2>1. SqrtPrice[n] \in Int /\ limit \in Int
    BY <1>1, <1>4, <1>7
  <2> QED
    BY <2>1 DEF SqrtPriceTarget, Lower
<1>10. target \in Int
  <2>1. SqrtPrice[n] \in Int /\ limit \in Int
    BY <1>1, <1>4, <1>7
  <2> QED
    BY <2>1 DEF SqrtPriceTarget, Lower, Upper
<1> HIDE DEF a_to_b, n, t, p, q, u, limit, target
<1>11. p \in Int /\ q \in Int /\ SqrtPrice[n] \in Int /\ SqrtPrice[u] \in Int /\ u \in Int /\ n \in Int
  BY <1>1, <1>6, <1>7
<1>12. ASSUME q # p, a_to_b PROVE n <= u /\ u <= t
  <2>1. SqrtPrice[n] < q /\ q < p
    BY <1>1, <1>8, <1>10, <1>11, <1>12
  <2>2. ASSUME u < n PROVE FALSE
    <3>1. u + 1 \in TickIndices /\ u + 1 <= n /\ u < MAX_TICK_INDEX
      BY <1>1, <1>6, <1>7, <1>11, <2>2 DEF TickIndices
    <3>2. SqrtPrice[u + 1] <= SqrtPrice[n] /\ q < SqrtPrice[u + 1] /\ SqrtPrice[u + 1] \in Int
      BY <1>1, <1>6, <1>7, <3>1, PricesIncrease
    <3> QED
      BY <1>11, <2>1, <3>2
  <2>3. ASSUME t < u PROVE FALSE
    <3>1. t + 1 \in TickIndices /\ t + 1 <= u /\ t < MAX_TICK_INDEX
      <4>1. n <= t
        BY <1>1, <1>12
      <4> QED
        BY <1>1, <1>4, <1>6, <1>7, <1>11, <2>3, <4>1 DEF TickIndices
    <3>2. SqrtPrice[t + 1] <= SqrtPrice[u] /\ p <= SqrtPrice[t + 1] /\ SqrtPrice[t + 1] \in Int
      BY <1>5, <1>6, <1>7, <3>1, PricesIncrease DEF TickHoldsPrice
    <3> QED
      BY <1>6, <1>11, <2>1, <3>2
  <2> QED
    BY <1>4, <1>11, <2>2, <2>3
<1>13. ASSUME q # p, ~a_to_b PROVE t <= u /\ u < n
  <2>1. p < q /\ q < SqrtPrice[n]
    BY <1>1, <1>9, <1>10, <1>11, <1>13
  <2>2. ASSUME n <= u PROVE FALSE
    <3>1. SqrtPrice[n] <= SqrtPrice[u]
      BY <1>1, <1>6, <2>2, PricesIncrease
    <3> QED
      BY <1>6, <1>11, <2>1, <3>1
  <2>3. ASSUME u < t PROVE FALSE
    <3>1. u + 1 \in TickIndices /\ u + 1 <= t /\ u < MAX_TICK_INDEX /\ t \in TickIndices
      <4>1. t < n
        BY <1>1, <1>4, <1>11, <1>13
      <4> QED
        BY <1>1, <1>4, <1>6, <1>7, <1>11, <2>3, <4>1 DEF TickIndices
    <3>2. /\ SqrtPrice[u + 1] <= SqrtPrice[t] /\ q < SqrtPrice[u + 1]
          /\ SqrtPrice[u + 1] \in Int /\ SqrtPrice[t] \in Int
      BY <1>6, <1>7, <3>1, PricesIncrease
    <3>3. SqrtPrice[t] <= p
      BY <1>5, <1>7, <3>1 DEF TickHoldsPrice
    <3> QED
      BY <1>11, <2>1, <3>2, <3>3
  <2> QED
    BY <1>4, <1>11, <2>2, <2>3
<1>14. IF a_to_b THEN n <= TickAfter(swap, c) /\ TickAfter(swap, c) <= t
       ELSE t <= TickAfter(swap, c) /\ TickAfter(swap, c) < n
  <2>1. CASE q = p
    BY <1>1, <1>2, <1>4, <1>11, <2>1
  <2>2. CASE q # p
    BY <1>2, <1>12, <1>13, <2>2
  <2> QED
    BY <2>1, <2>2
<1>15. TickAfter(swap, c) \in Int
  BY <1>2, <1>4, <1>11
<1> QED
  BY <1>14, <1>15 DEF a_to_b, n, t

\* Between the current tick and the one the loop heads for no tick is
\* initialized, and the loop sees that one if it is (SearchSkipsNothing).
LEMMA NothingSkipped ==
  ASSUME IInv, NEW c, StepComputed(swap, c)
  PROVE  /\ \A t \in UsableTicks : swap.ticks[t].initialized =>
              IF swap.request.a_to_b
              THEN t <= swap.curr_tick_index => t <= NextInitTick(swap).tick_index
              ELSE swap.curr_tick_index < t => NextInitTick(swap).tick_index <= t
         /\ CrossesInitialized(swap, c) <=>
              /\ ReachesTick(swap, c)
              /\ NextInitTick(swap).tick_index \in UsableTicks
              /\ swap.ticks[NextInitTick(swap).tick_index].initialized
<1> DEFINE a_to_b == swap.request.a_to_b
           t      == swap.curr_tick_index
           arrays == swap.request.arrays
           first  == swap.curr_array_index
           initialized == {u \in UsableTicks : swap.ticks[u].initialized}
           next   == NextInitTick(swap)
<1>1. ~Idle /\ next # SearchFailed /\ next.tick_index \in TickIndices
  BY DEF StepComputed
<1>2. swap \in SwapState
  BY <1>1 DEF IInv, TypeOK, Idle
<1>3. /\ a_to_b \in BOOLEAN /\ arrays \in Seq(Int) /\ first \in Nat /\ t \in Int
  BY <1>2 DEF SwapState, SwapRequest
<1>4. /\ \A i \in 1 .. Len(arrays) : check_is_valid_start_tick(arrays[i])
      /\ first # 0
  BY <1>1 DEF IInv, SwapInv
<1>5. /\ next = get_next_initialized_tick_index(initialized, arrays, t, a_to_b, first)
      /\ initialized \in SUBSET UsableTicks
  BY DEF NextInitTick
<1>6. CrossesInitialized(swap, c) <=>
        /\ ReachesTick(swap, c)
        /\ HoldsTick(arrays[next.array_index], next.tick_index)
        /\ swap.ticks[next.tick_index].initialized
  BY DEF CrossesInitialized
<1>7. \A u \in UsableTicks : u \in initialized <=> swap.ticks[u].initialized
  OBVIOUS
<1> HIDE DEF a_to_b, t, arrays, first, initialized, next
<1>8. /\ \A u \in initialized : /\ a_to_b /\ u <= t => u <= next.tick_index
                                /\ ~a_to_b /\ t < u => next.tick_index <= u
      /\ next.tick_index \in initialized =>
           HoldsTick(arrays[next.array_index], next.tick_index)
  BY <1>1, <1>3, <1>4, <1>5, SearchSkipsNothing
<1>9. HoldsTick(arrays[next.array_index], next.tick_index) => next.tick_index \in UsableTicks
  BY <1>1 DEF HoldsTick, check_is_usable_tick, UsableTicks
<1>10. \A u \in UsableTicks : swap.ticks[u].initialized =>
         IF a_to_b THEN u <= t => u <= next.tick_index ELSE t < u => next.tick_index <= u
  <2> SUFFICES ASSUME NEW u \in UsableTicks, swap.ticks[u].initialized
               PROVE  IF a_to_b THEN u <= t => u <= next.tick_index ELSE t < u => next.tick_index <= u
    OBVIOUS
  <2>1. u \in initialized
    BY <1>7
  <2>2. /\ a_to_b /\ u <= t => u <= next.tick_index
        /\ ~a_to_b /\ t < u => next.tick_index <= u
    BY <1>8, <2>1
  <2> QED
    BY <1>3, <2>2
<1>11. CrossesInitialized(swap, c) <=>
         /\ ReachesTick(swap, c)
         /\ next.tick_index \in UsableTicks
         /\ swap.ticks[next.tick_index].initialized
  BY <1>6, <1>7, <1>8, <1>9
<1> QED
  BY <1>10, <1>11 DEF a_to_b, t, next

\* Crossing a tick leaves the liquidity it holds alone.
LEMMA CrossingKeepsTicks ==
  ASSUME IInv, NEW c, StepComputed(swap, c), NEW pos, NEW t \in UsableTicks,
         TickBooked(pos, t, swap.ticks[t])
  PROVE  TickBooked(pos, t, TicksAfter(swap, c)[t])
<1> DEFINE n == NextInitTick(swap).tick_index
           crossed == next_tick_cross_update(swap.ticks[n], GrowthsAtCrossing(swap, c),
                                             RewardInfosAt(swap.timestamp))
<1>1. ~Idle
  BY DEF StepComputed
<1>2. swap.ticks \in [UsableTicks -> Tick]
  BY <1>1 DEF IInv, TypeOK, Idle, SwapState
<1>3. TicksAfter(swap, c) = IF CrossesInitialized(swap, c)
                           THEN [swap.ticks EXCEPT ![n] = crossed] ELSE swap.ticks
  BY <1>2 DEF TicksAfter, next_tick_cross_update
<1>4. ASSUME n \in UsableTicks
      PROVE  /\ crossed.liquidity_gross = swap.ticks[n].liquidity_gross
             /\ crossed.liquidity_net = swap.ticks[n].liquidity_net
             /\ crossed.initialized = swap.ticks[n].initialized
  <2>1. swap.ticks[n] \in Tick
    BY <1>2, <1>4
  <2> QED
    BY <2>1 DEF next_tick_cross_update, Tick
<1> HIDE DEF n, crossed
<1>5. CASE t = n
  BY <1>2, <1>3, <1>4, <1>5 DEF TickBooked
<1>6. CASE t # n
  BY <1>2, <1>3, <1>6
<1> QED
  BY <1>5, <1>6

\* After an iteration the loop's liquidity is that of the positions in range of
\* the tick it has reached: it has crossed every boundary that it passed, and no
\* other, with the right sign (swap_manager.rs:106-179).
LEMMA BookAfterIteration ==
  ASSUME BookIInv, NEW c, StepComputed(swap, c)
  PROVE  Booked(positions, LiquidityAfter(swap, c), TickAfter(swap, c), TicksAfter(swap, c))
<1> DEFINE a_to_b == swap.request.a_to_b
           t      == swap.curr_tick_index
           n      == NextInitTick(swap).tick_index
           tk     == swap.ticks
           L      == swap.curr_liquidity
           R(u)   == Sum(RangeShare(positions, u))
<1>1. ~Idle /\ IInv /\ n \in TickIndices /\ IF a_to_b THEN n <= t ELSE n > t
  BY DEF StepComputed, BookIInv
<1>2. swap \in SwapState /\ positions \in AllPositions /\ RangesSound(positions)
  BY <1>1 DEF IInv, TypeOK, Idle, BookIInv, Book, AllPositions
<1>3. a_to_b \in BOOLEAN /\ t \in Int /\ tk \in [UsableTicks -> Tick] /\ n \in Int /\ L \in Int
  <2>1. a_to_b \in BOOLEAN /\ t \in Int /\ tk \in [UsableTicks -> Tick] /\ L \in U128
    BY <1>2 DEF SwapState, SwapRequest
  <2>2. U128 \subseteq Int /\ TickIndices \subseteq Int
    BY Widths, ArrayTypes
  <2> QED
    BY <1>1, <2>1, <2>2
<1>4. L = R(t) /\ \A u \in UsableTicks : TickBooked(positions, u, tk[u])
  BY <1>1 DEF BookIInv, Book, SwapBooked, Booked
<1>5. /\ \A u \in UsableTicks : tk[u].initialized =>
           IF a_to_b THEN u <= t => u <= n ELSE t < u => n <= u
      /\ CrossesInitialized(swap, c) <=>
           ReachesTick(swap, c) /\ n \in UsableTicks /\ tk[n].initialized
  BY <1>1, NothingSkipped
<1>6. LiquidityAfter(swap, c) = IF CrossesInitialized(swap, c)
        THEN add_liquidity_delta(L, IF a_to_b THEN -tk[n].liquidity_net ELSE tk[n].liquidity_net)
        ELSE L
  BY DEF LiquidityAfter
<1>7. LiquidityAfter(swap, c) # Err
  BY DEF StepComputed, ComputationFails
<1>8. ReachesTick(swap, c) => TickAfter(swap, c) = IF a_to_b THEN n - 1 ELSE n
  BY DEF TickAfter
<1>9. ~ReachesTick(swap, c) =>
        /\ TickAfter(swap, c) \in Int
        /\ IF a_to_b THEN n <= TickAfter(swap, c) /\ TickAfter(swap, c) <= t
           ELSE t <= TickAfter(swap, c) /\ TickAfter(swap, c) < n
  BY <1>1, TickNotPassed
<1> HIDE DEF a_to_b, t, n, tk, L, R
<1>10. ASSUME NEW low \in Int, NEW high \in Int, low <= high,
              \A u \in UsableTicks : low < u /\ u <= high => ~tk[u].initialized
       PROVE  R(low) = R(high)
  BY <1>2, <1>3, <1>4, <1>10, NothingPassed DEF R
<1>11. ASSUME NEW u \in Int
       PROVE  /\ R(u) \in Int /\ R(u - 1) \in Int
              /\ u \in UsableTicks => tk[u].liquidity_net \in Int /\ R(u) = R(u - 1) + tk[u].liquidity_net
  <2>1. R(u) \in Int /\ R(u - 1) \in Int
    BY <1>2, ShareTypes, SumOfInts DEF R
  <2>2. R(u) = R(u - 1) + (Sum(LowerShare(positions, u)) - Sum(UpperShare(positions, u)))
    BY <1>2, LiquidityAcross DEF R
  <2>3. ASSUME u \in UsableTicks
        PROVE  tk[u].liquidity_net \in Int /\ R(u) = R(u - 1) + tk[u].liquidity_net
    BY <1>3, <1>4, <2>2, <2>3 DEF TickBooked, Tick
  <2> QED
    BY <2>1, <2>3
<1>12. UsableTicks \subseteq Int
  BY ArrayTypes
<1>13. CASE ~ReachesTick(swap, c)
  <2> DEFINE u == TickAfter(swap, c)
  <2>1. u \in Int /\ IF a_to_b THEN n <= u /\ u <= t ELSE t <= u /\ u < n
    BY <1>9, <1>13
  <2> HIDE DEF u
  <2>2. R(u) = R(t)
    <3>1. CASE a_to_b
      <4>1. \A v \in UsableTicks : u < v /\ v <= t => ~tk[v].initialized
        BY <1>3, <1>5, <1>12, <2>1, <3>1
      <4> QED
        BY <1>3, <1>10, <2>1, <3>1, <4>1
    <3>2. CASE ~a_to_b
      <4>1. \A v \in UsableTicks : t < v /\ v <= u => ~tk[v].initialized
        BY <1>3, <1>5, <1>12, <2>1, <3>2
      <4> QED
        BY <1>3, <1>10, <2>1, <3>2, <4>1
    <3> QED
      BY <3>1, <3>2
  <2>3. LiquidityAfter(swap, c) = L
    BY <1>5, <1>6, <1>13
  <2>4. LiquidityAfter(swap, c) = R(TickAfter(swap, c))
    BY <1>4, <2>2, <2>3 DEF u
  <2> QED
    BY <1>1, <1>4, <2>4, CrossingKeepsTicks DEF Booked, R, tk
<1>14. CASE ReachesTick(swap, c) /\ ~(n \in UsableTicks /\ tk[n].initialized)
  <2>1. LiquidityAfter(swap, c) = L
    BY <1>5, <1>6, <1>14
  <2>2. ASSUME a_to_b PROVE LiquidityAfter(swap, c) = R(TickAfter(swap, c))
    <3>1. \A v \in UsableTicks : n - 1 < v /\ v <= t => ~tk[v].initialized
      <4> SUFFICES ASSUME NEW v \in UsableTicks, n - 1 < v, v <= t, tk[v].initialized PROVE FALSE
        OBVIOUS
      <4>1. v <= n /\ v \in Int
        BY <1>5, <1>12, <2>2
      <4>2. v = n
        BY <1>3, <4>1
      <4> QED
        BY <1>14, <4>2
    <3>2. R(n - 1) = R(t)
      BY <1>1, <1>3, <1>10, <2>2, <3>1
    <3> QED
      BY <1>4, <1>8, <1>14, <2>1, <2>2, <3>2
  <2>3. ASSUME ~a_to_b PROVE LiquidityAfter(swap, c) = R(TickAfter(swap, c))
    <3>1. \A v \in UsableTicks : t < v /\ v <= n => ~tk[v].initialized
      <4> SUFFICES ASSUME NEW v \in UsableTicks, t < v, v <= n, tk[v].initialized PROVE FALSE
        OBVIOUS
      <4>1. n <= v /\ v \in Int
        BY <1>5, <1>12, <2>3
      <4>2. v = n
        BY <1>3, <4>1
      <4> QED
        BY <1>14, <4>2
    <3>2. R(t) = R(n)
      BY <1>1, <1>3, <1>10, <2>3, <3>1
    <3> QED
      BY <1>4, <1>8, <1>14, <2>1, <2>3, <3>2
  <2>4. LiquidityAfter(swap, c) = R(TickAfter(swap, c))
    BY <1>8, <2>2, <2>3
  <2> QED
    BY <1>1, <1>4, <2>4, CrossingKeepsTicks DEF Booked, R, tk
<1>15. CASE ReachesTick(swap, c) /\ n \in UsableTicks /\ tk[n].initialized
  <2> DEFINE net == tk[n].liquidity_net
  <2>1. net \in Int /\ R(n) \in Int /\ R(n - 1) \in Int /\ R(n) = R(n - 1) + net
    BY <1>3, <1>11, <1>15
  <2>2. LiquidityAfter(swap, c) = CheckU128(L + (IF a_to_b THEN -net ELSE net))
    BY <1>5, <1>6, <1>15 DEF add_liquidity_delta
  <2> HIDE DEF net
  <2>3. LiquidityAfter(swap, c) = L + (IF a_to_b THEN -net ELSE net)
    BY <1>7, <2>2 DEF CheckU128
  <2>4. ASSUME a_to_b PROVE LiquidityAfter(swap, c) = R(TickAfter(swap, c))
    <3>1. \A v \in UsableTicks : n < v /\ v <= t => ~tk[v].initialized
      BY <1>3, <1>5, <1>12, <2>4
    <3>2. R(n) = R(t)
      BY <1>1, <1>3, <1>10, <2>4, <3>1
    <3>3. R(n - 1) = L + (-net)
      BY <1>3, <1>4, <2>1, <3>2
    <3> QED
      BY <1>8, <1>15, <2>3, <2>4, <3>3
  <2>5. ASSUME ~a_to_b PROVE LiquidityAfter(swap, c) = R(TickAfter(swap, c))
    <3>1. n - 1 \in Int /\ t <= n - 1
      BY <1>1, <1>3, <2>5
    <3>2. \A v \in UsableTicks : t < v /\ v <= n - 1 => ~tk[v].initialized
      BY <1>3, <1>5, <1>12, <2>5
    <3>3. R(t) = R(n - 1)
      BY <1>3, <1>10, <3>1, <3>2
    <3>4. R(n) = L + net
      BY <1>3, <1>4, <2>1, <3>3
    <3> QED
      BY <1>8, <1>15, <2>3, <2>5, <3>4
  <2>6. LiquidityAfter(swap, c) = R(TickAfter(swap, c))
    BY <2>4, <2>5
  <2> QED
    BY <1>1, <1>4, <2>6, CrossingKeepsTicks DEF Booked, R, tk
<1> QED
  BY <1>13, <1>14, <1>15

-----------------------------------------------------------------------------
(* The instructions on positions *)

\* Positions that agree on liquidity, and on the ranges of those that have some,
\* have the same shares.
SameBook(pos, pos2) ==
  \A p \in PositionIds :
    /\ pos2[p].liquidity = pos[p].liquidity
    /\ \/ pos[p].liquidity = 0
       \/ /\ pos2[p].tick_lower_index = pos[p].tick_lower_index
          /\ pos2[p].tick_upper_index = pos[p].tick_upper_index

\* Positions with the same book have the same shares in the pool's and the
\* ticks' liquidity.
LEMMA SameShares ==
  ASSUME NEW pos \in AllPositions, NEW pos2 \in AllPositions, SameBook(pos, pos2), NEW t \in Int
  PROVE  /\ RangeShare(pos2, t) = RangeShare(pos, t)
         /\ LowerShare(pos2, t) = LowerShare(pos, t)
         /\ UpperShare(pos2, t) = UpperShare(pos, t)
BY DEF SameBook, RangeShare, LowerShare, UpperShare, InRange

\* So the same book is theirs.
LEMMA SameBooked ==
  ASSUME NEW pos \in AllPositions, NEW pos2 \in AllPositions, SameBook(pos, pos2),
         NEW current_liquidity, NEW current \in Int, NEW all_ticks,
         Booked(pos, current_liquidity, current, all_ticks)
  PROVE  Booked(pos2, current_liquidity, current, all_ticks)
<1>1. UsableTicks \subseteq Int
  BY ArrayTypes
<1>2. current_liquidity = Sum(RangeShare(pos2, current))
  BY SameShares DEF Booked
<1>3. ASSUME NEW t \in UsableTicks PROVE TickBooked(pos2, t, all_ticks[t])
  <2>1. LowerShare(pos2, t) = LowerShare(pos, t) /\ UpperShare(pos2, t) = UpperShare(pos, t)
    BY <1>1, SameShares
  <2> QED
    BY <2>1 DEF Booked, TickBooked
<1> QED
  BY <1>2, <1>3 DEF Booked

\* pos2 is pos with delta more liquidity in position p.
LiquidityAdded(pos, pos2, p, delta) ==
  /\ \A q \in PositionIds : q # p => pos2[q] = pos[q]
  /\ pos2[p].state = pos[p].state
  /\ pos2[p].tick_lower_index = pos[p].tick_lower_index
  /\ pos2[p].tick_upper_index = pos[p].tick_upper_index
  /\ pos2[p].liquidity = pos[p].liquidity + delta

\* The shares at a tick change by what is added there.
LEMMA SharesAfterChange ==
  ASSUME NEW pos \in AllPositions, NEW pos2 \in AllPositions, NEW p \in PositionIds,
         NEW delta \in Int, LiquidityAdded(pos, pos2, p, delta), NEW t \in Int
  PROVE  /\ Sum(RangeShare(pos2, t)) =
              Sum(RangeShare(pos, t)) + IF InRange(pos[p], t) THEN delta ELSE 0
         /\ Sum(LowerShare(pos2, t)) =
              Sum(LowerShare(pos, t)) + IF pos[p].tick_lower_index = t THEN delta ELSE 0
         /\ Sum(UpperShare(pos2, t)) =
              Sum(UpperShare(pos, t)) + IF pos[p].tick_upper_index = t THEN delta ELSE 0
<1>1. /\ RangeShare(pos, t) \in Amounts /\ RangeShare(pos2, t) \in Amounts
      /\ LowerShare(pos, t) \in Amounts /\ LowerShare(pos2, t) \in Amounts
      /\ UpperShare(pos, t) \in Amounts /\ UpperShare(pos2, t) \in Amounts
  BY ShareTypes
<1>2. /\ pos[p].liquidity \in Int
      /\ pos2[p].liquidity = pos[p].liquidity + delta
      /\ InRange(pos2[p], t) <=> InRange(pos[p], t)
  BY DEF LiquidityAdded, InRange, AllPositions, Position, U128
<1>3. Sum(RangeShare(pos2, t)) = Sum(RangeShare(pos, t))
                                  + IF InRange(pos[p], t) THEN delta ELSE 0
  <2>1. \A q \in PositionIds : q # p => RangeShare(pos2, t)[q] = RangeShare(pos, t)[q]
    BY DEF LiquidityAdded, RangeShare
  <2>2. RangeShare(pos2, t)[p] - RangeShare(pos, t)[p]
          = IF InRange(pos[p], t) THEN delta ELSE 0
    BY <1>2 DEF RangeShare
  <2>3. Sum(RangeShare(pos2, t))
          = Sum(RangeShare(pos, t)) + (RangeShare(pos2, t)[p] - RangeShare(pos, t)[p])
    BY <1>1, <2>1, SumOfOneChange
  <2> QED
    BY <2>2, <2>3
<1>4. Sum(LowerShare(pos2, t)) = Sum(LowerShare(pos, t))
                                  + IF pos[p].tick_lower_index = t THEN delta ELSE 0
  <2>1. \A q \in PositionIds : q # p => LowerShare(pos2, t)[q] = LowerShare(pos, t)[q]
    BY DEF LiquidityAdded, LowerShare
  <2>2. LowerShare(pos2, t)[p] - LowerShare(pos, t)[p]
          = IF pos[p].tick_lower_index = t THEN delta ELSE 0
    BY <1>2 DEF LowerShare, LiquidityAdded
  <2>3. Sum(LowerShare(pos2, t))
          = Sum(LowerShare(pos, t)) + (LowerShare(pos2, t)[p] - LowerShare(pos, t)[p])
    BY <1>1, <2>1, SumOfOneChange
  <2> QED
    BY <2>2, <2>3
<1>5. Sum(UpperShare(pos2, t)) = Sum(UpperShare(pos, t))
                                  + IF pos[p].tick_upper_index = t THEN delta ELSE 0
  <2>1. \A q \in PositionIds : q # p => UpperShare(pos2, t)[q] = UpperShare(pos, t)[q]
    BY DEF LiquidityAdded, UpperShare
  <2>2. UpperShare(pos2, t)[p] - UpperShare(pos, t)[p]
          = IF pos[p].tick_upper_index = t THEN delta ELSE 0
    BY <1>2 DEF UpperShare, LiquidityAdded
  <2>3. Sum(UpperShare(pos2, t))
          = Sum(UpperShare(pos, t)) + (UpperShare(pos2, t)[p] - UpperShare(pos, t)[p])
    BY <1>1, <2>1, SumOfOneChange
  <2> QED
    BY <2>2, <2>3
<1> QED
  BY <1>3, <1>4, <1>5

\* The sums of shares are not negative.
LEMMA SharesNotNegative ==
  ASSUME NEW pos \in AllPositions, NEW t \in Int, NEW p \in PositionIds
  PROVE  /\ Sum(LowerShare(pos, t)) \in Int /\ 0 <= Sum(LowerShare(pos, t))
         /\ Sum(UpperShare(pos, t)) \in Int /\ 0 <= Sum(UpperShare(pos, t))
<1> DEFINE L == LowerShare(pos, t)
           U == UpperShare(pos, t)
<1>1. L \in [PositionIds -> Nat] /\ U \in [PositionIds -> Nat]
      /\ Sum(L) \in Int /\ Sum(U) \in Int
  BY ShareTypes, SumOfInts
<1> HIDE DEF L, U
<1>2. L[p] <= Sum(L) /\ U[p] <= Sum(U) /\ L[p] \in Nat /\ U[p] \in Nat
  BY <1>1, SumAtLeast
<1>3. 0 <= Sum(L) /\ 0 <= Sum(U)
  BY <1>1, <1>2
<1> QED
  BY <1>1, <1>3 DEF L, U

\* The update of a boundary tick books what is added to the position
\* (tick_manager.rs:33).
LEMMA BoundaryBooked ==
  ASSUME NEW pos \in AllPositions, NEW pos2 \in AllPositions, NEW p \in PositionIds,
         NEW delta \in Int, LiquidityAdded(pos, pos2, p, delta),
         NEW t \in UsableTicks, NEW tick \in Tick, TickBooked(pos, t, tick),
         NEW is_upper \in BOOLEAN,
         IF is_upper THEN pos[p].tick_upper_index = t /\ pos[p].tick_lower_index # t
         ELSE pos[p].tick_lower_index = t /\ pos[p].tick_upper_index # t,
         ~TickUpdateFails(tick, delta, is_upper),
         NEW current, NEW growths, NEW infos
  PROVE  TickBooked(pos2, t, next_tick_modify_liquidity_update(tick, t, current, growths, infos,
                                                              delta, is_upper))
<1> DEFINE l  == Sum(LowerShare(pos, t))
           u  == Sum(UpperShare(pos, t))
           l2 == Sum(LowerShare(pos2, t))
           u2 == Sum(UpperShare(pos2, t))
           new == next_tick_modify_liquidity_update(tick, t, current, growths, infos, delta, is_upper)
<1>1. t \in Int
  BY ArrayTypes
<1>2. /\ l \in Int /\ u \in Int /\ 0 <= l /\ 0 <= u
      /\ l2 \in Int /\ u2 \in Int /\ 0 <= l2 /\ 0 <= u2
  BY <1>1, SharesNotNegative
<1>3. IF is_upper THEN l2 = l /\ u2 = u + delta ELSE l2 = l + delta /\ u2 = u
  <2>1. /\ l2 = l + IF pos[p].tick_lower_index = t THEN delta ELSE 0
        /\ u2 = u + IF pos[p].tick_upper_index = t THEN delta ELSE 0
    BY <1>1, SharesAfterChange
  <2> QED
    BY <1>2, <2>1
<1>4. /\ tick.liquidity_gross = l + u /\ tick.liquidity_net = l - u
      /\ tick.initialized <=> tick.liquidity_gross > 0
  BY DEF TickBooked
<1>5. GrossAfter(tick, delta) = l2 + u2
  <2>1. GrossAfter(tick, delta) = tick.liquidity_gross + delta
    BY DEF TickUpdateFails, GrossAfter, add_liquidity_delta, CheckU128
  <2> QED
    BY <1>2, <1>3, <1>4, <2>1
<1>6. NetAfter(tick, delta, is_upper) = l2 - u2
  BY <1>2, <1>3, <1>4 DEF NetAfter
<1>7. SUFFICES /\ new.liquidity_gross = l2 + u2
               /\ new.liquidity_net = l2 - u2
               /\ new.initialized <=> new.liquidity_gross > 0
  BY DEF TickBooked
<1> HIDE DEF l, u, l2, u2
<1>8. CASE delta = 0
  <2>1. new = tick
    BY <1>8 DEF next_tick_modify_liquidity_update
  <2> QED
    BY <1>2, <1>3, <1>4, <1>8, <2>1
<1>9. CASE delta # 0 /\ GrossAfter(tick, delta) = 0
  <2>1. /\ new.liquidity_gross = 0 /\ new.liquidity_net = 0 /\ new.initialized = FALSE
    BY <1>9 DEF next_tick_modify_liquidity_update, DefaultTick
  <2>2. l2 = 0 /\ u2 = 0
    BY <1>2, <1>5, <1>9
  <2> QED
    BY <2>1, <2>2
<1>10. CASE delta # 0 /\ GrossAfter(tick, delta) # 0
  <2>1. /\ new.liquidity_gross = GrossAfter(tick, delta)
        /\ new.liquidity_net = NetAfter(tick, delta, is_upper)
        /\ new.initialized = TRUE
    BY <1>10 DEF next_tick_modify_liquidity_update
  <2>2. GrossAfter(tick, delta) > 0
    BY <1>2, <1>5, <1>10
  <2> QED
    BY <1>5, <1>6, <2>1, <2>2
<1> QED
  BY <1>8, <1>9, <1>10
\* What an update of a position leaves alone, and its liquidity after it.
Updated(position, l, f, o, g, a) ==
  [position EXCEPT !.liquidity = l, !.fee_growth_checkpoint = f, !.fee_owed = o,
                   !.growth_inside_checkpoint = g, !.amount_owed = a]

\* Updating a position sets its liquidity and keeps its state and its range
\* (state/position.rs:49).
LEMMA UpdatedFields ==
  ASSUME NEW position \in Position, NEW l, NEW f, NEW o, NEW g, NEW a
  PROVE  /\ Updated(position, l, f, o, g, a).state = position.state
         /\ Updated(position, l, f, o, g, a).tick_lower_index = position.tick_lower_index
         /\ Updated(position, l, f, o, g, a).tick_upper_index = position.tick_upper_index
         /\ Updated(position, l, f, o, g, a).liquidity = l
BY DEF Position, Updated

\* A change of a position's liquidity, and the settlement of its growth, change
\* nothing else that the book is about (position_manager.rs:10).
LEMMA PositionAdded ==
  ASSUME TypeOK, NEW p \in PositionIds, NEW delta \in Int, NEW infos,
         add_liquidity_delta(positions[p].liquidity, delta) # Err,
         positions' = [positions EXCEPT ![p] = PositionUpdate(positions[p], delta, infos)]
  PROVE  LiquidityAdded(positions, positions', p, delta)
<1>1. positions[p] \in Position /\ positions \in AllPositions
  BY DEF TypeOK, AllPositions
<1>2. positions'[p] = PositionUpdate(positions[p], delta, infos)
  BY <1>1 DEF AllPositions
<1>3. add_liquidity_delta(positions[p].liquidity, delta) = positions[p].liquidity + delta
  BY DEF add_liquidity_delta, CheckU128
<1>4. /\ positions'[p].state = positions[p].state
      /\ positions'[p].tick_lower_index = positions[p].tick_lower_index
      /\ positions'[p].tick_upper_index = positions[p].tick_upper_index
      /\ positions'[p].liquidity = positions[p].liquidity + delta
  <2> DEFINE position == positions[p]
             fee_inside    == FeeGrowthsInside(position)
             reward_inside == RewardGrowthsInside(position, infos)
             fee_owed      == [x \in Token |->
               WrapU64(position.fee_owed[x] + GrowthEarned(position.liquidity, fee_inside[x],
                                                           position.fee_growth_checkpoint[x]))]
             amount_owed   == [i \in RewardIndex |->
               WrapU64(position.amount_owed[i]
                       + GrowthEarned(position.liquidity, reward_inside[i],
                                      position.growth_inside_checkpoint[i]))]
             new_liquidity == add_liquidity_delta(position.liquidity, delta)
  <2>1. positions'[p] = Updated(position, new_liquidity, fee_inside, fee_owed, reward_inside,
                                amount_owed)
    BY <1>2 DEF PositionUpdate, next_position_modify_liquidity_update, Updated
  <2>2. position \in Position /\ new_liquidity = position.liquidity + delta
    BY <1>1, <1>3
  <2> HIDE DEF fee_inside, reward_inside, fee_owed, amount_owed, new_liquidity, position
  <2>3. /\ positions'[p].state = position.state
        /\ positions'[p].tick_lower_index = position.tick_lower_index
        /\ positions'[p].tick_upper_index = position.tick_upper_index
        /\ positions'[p].liquidity = new_liquidity
    BY <2>1, <2>2, UpdatedFields
  <2> QED
    BY <2>2, <2>3 DEF position
<1>5. \A q \in PositionIds : q # p => positions'[q] = positions[q]
  BY <1>1 DEF AllPositions
<1> QED
  BY <1>4, <1>5 DEF LiquidityAdded

\* The pool and the boundary ticks take part in a change of a position's
\* liquidity (liquidity_manager.rs:122).
LEMMA ModifyKeepsBook ==
  ASSUME BookIInv, IInv', Idle, NEW p \in PositionIds, NEW delta \in Int, NEW timestamp \in U64,
         positions[p].state = "open", ModifyLiquidity(p, delta, timestamp),
         tick_current_index' = tick_current_index, swap' = swap
  PROVE  Book'
<1> DEFINE position == positions[p]
           infos    == RewardInfosAt(timestamp)
           lower    == position.tick_lower_index
           upper    == position.tick_upper_index
           current  == tick_current_index
<1>1. /\ TypeOK /\ positions \in AllPositions /\ positions' \in AllPositions
      /\ ticks \in [UsableTicks -> Tick] /\ current \in Int /\ position \in Position
      /\ RangesSound(positions) /\ Booked(positions, liquidity, current, ticks)
  BY DEF BookIInv, Book, IInv, TypeOK, AllPositions, AccountBooked
<1>2. /\ ~ModifyLiquidityFails(position, delta, timestamp)
      /\ positions' = [positions EXCEPT ![p] = PositionUpdate(position, delta, infos)]
      /\ ticks' = [t \in UsableTicks |->
                     IF t \in {lower, upper} THEN TickUpdate(position, t, delta, infos) ELSE ticks[t]]
      /\ liquidity' = NextLiquidity(position, delta)
  BY DEF ModifyLiquidity
<1>3. /\ NextLiquidity(position, delta) # Err
      /\ add_liquidity_delta(position.liquidity, delta) # Err
      /\ ~TickUpdateFails(ticks[lower], delta, FALSE)
      /\ ~TickUpdateFails(ticks[upper], delta, TRUE)
  BY <1>2 DEF ModifyLiquidityFails
<1>4. LiquidityAdded(positions, positions', p, delta)
  <2> HIDE DEF infos
  <2> QED
    BY <1>1, <1>2, <1>3, PositionAdded
<1>5. /\ lower \in UsableTicks /\ upper \in UsableTicks /\ lower < upper
      /\ lower \in Int /\ upper \in Int /\ lower # upper
  <2>1. lower \in UsableTicks /\ upper \in UsableTicks /\ lower < upper
    BY <1>1 DEF RangesSound
  <2>2. lower \in Int /\ upper \in Int
    BY <2>1, ArrayTypes
  <2> HIDE DEF lower, upper
  <2> QED
    BY <2>1, <2>2
<1>6. RangesSound(positions')
  <2> SUFFICES ASSUME NEW q \in PositionIds
               PROVE  IF positions'[q].state = "open"
                      THEN /\ positions'[q].tick_lower_index \in UsableTicks
                           /\ positions'[q].tick_upper_index \in UsableTicks
                           /\ positions'[q].tick_lower_index < positions'[q].tick_upper_index
                      ELSE positions'[q].liquidity = 0
    BY DEF RangesSound
  <2>1. CASE q = p
    BY <1>4, <1>5, <2>1 DEF LiquidityAdded
  <2>2. CASE q # p
    BY <1>1, <1>4, <2>2 DEF LiquidityAdded, RangesSound
  <2> QED
    BY <2>1, <2>2
<1>7. liquidity' = Sum(RangeShare(positions', current))
  <2>1. liquidity = Sum(RangeShare(positions, current))
    BY <1>1 DEF Booked
  <2>2. Sum(RangeShare(positions', current))
          = Sum(RangeShare(positions, current)) + IF InRange(position, current) THEN delta ELSE 0
    BY <1>1, <1>4, SharesAfterChange
  <2>3. NextLiquidity(position, delta)
          = IF InRange(position, current) THEN add_liquidity_delta(liquidity, delta) ELSE liquidity
    BY DEF NextLiquidity, next_whirlpool_liquidity, InRange
  <2>4. liquidity \in Int
    BY <1>1, Widths DEF TypeOK
  <2> HIDE DEF current, position
  <2>5. CASE InRange(position, current)
    <3>1. liquidity' = liquidity + delta
      BY <1>2, <1>3, <2>3, <2>5 DEF add_liquidity_delta, CheckU128
    <3> QED
      BY <2>1, <2>2, <2>5, <3>1
  <2>6. CASE ~InRange(position, current)
    BY <1>2, <2>1, <2>2, <2>3, <2>4, <2>6
  <2> QED
    BY <2>5, <2>6
<1>8. ASSUME NEW t \in UsableTicks PROVE TickBooked(positions', t, ticks'[t])
  <2>1. t \in Int /\ ticks[t] \in Tick /\ TickBooked(positions, t, ticks[t])
    BY <1>1, ArrayTypes DEF Booked
  <2>2. ticks'[t] = IF t \in {lower, upper} THEN TickUpdate(position, t, delta, infos) ELSE ticks[t]
    BY <1>2
  <2>3. TickUpdate(position, t, delta, infos)
          = next_tick_modify_liquidity_update(ticks[t], t, current, fee_growth_global, infos, delta,
                                              t = upper)
    BY DEF TickUpdate
  <2> HIDE DEF infos
  <2>4. CASE t = lower
    <3>1. (t = upper) = FALSE
      BY <1>5, <2>4
    <3>2. TickBooked(positions', t,
            next_tick_modify_liquidity_update(ticks[t], t, current, fee_growth_global, infos, delta,
                                              FALSE))
      BY <1>1, <1>3, <1>4, <1>5, <2>1, <2>4, BoundaryBooked
    <3> QED
      BY <2>2, <2>3, <2>4, <3>1, <3>2
  <2>5. CASE t = upper
    <3>1. (t = upper) = TRUE
      BY <2>5
    <3>2. TickBooked(positions', t,
            next_tick_modify_liquidity_update(ticks[t], t, current, fee_growth_global, infos, delta,
                                              TRUE))
      BY <1>1, <1>3, <1>4, <1>5, <2>1, <2>5, BoundaryBooked
    <3> QED
      BY <2>2, <2>3, <2>5, <3>1, <3>2
  <2>6. CASE t # lower /\ t # upper
    <3>1. /\ Sum(LowerShare(positions', t)) = Sum(LowerShare(positions, t)) + 0
          /\ Sum(UpperShare(positions', t)) = Sum(UpperShare(positions, t)) + 0
      BY <1>1, <1>4, <2>1, <2>6, SharesAfterChange
    <3>2. Sum(LowerShare(positions, t)) \in Int /\ Sum(UpperShare(positions, t)) \in Int
      BY <1>1, <2>1, SharesNotNegative
    <3> QED
      BY <2>1, <2>2, <2>6, <3>1, <3>2 DEF TickBooked
  <2> QED
    BY <2>4, <2>5, <2>6
<1>9. AccountBooked'
  BY <1>7, <1>8 DEF AccountBooked, Booked
<1> QED
  BY <1>6, <1>9 DEF Book, SwapBooked, Idle

\* An instruction that changes nothing the book is about keeps it.
LEMMA BookQuietStep ==
  ASSUME BookIInv, IInv', Idle, UNCHANGED <<liquidity, tick_current_index, ticks, swap>>,
         SameBook(positions, positions'), RangesSound(positions')
  PROVE  Book'
<1>1. /\ positions \in AllPositions /\ positions' \in AllPositions /\ tick_current_index \in Int
      /\ Booked(positions, liquidity, tick_current_index, ticks)
  BY DEF BookIInv, Book, IInv, TypeOK, AllPositions, AccountBooked
<1>2. Booked(positions', liquidity, tick_current_index, ticks)
  BY <1>1, SameBooked
<1> QED
  BY <1>2 DEF Book, AccountBooked, SwapBooked, Idle
\* The instructions on positions keep the book.
LEMMA BookPositionStep ==
  ASSUME BookIInv, IInv', PositionNext PROVE Book'
<1> USE DEF config, curve, fees, rewards
<1>1. PICK p \in PositionIds :
        \/ \E range \in PositionRanges : OpenPosition(p, range[1], range[2])
        \/ \E amount \in LiquidityAmounts, timestamp \in Timestamps :
             \/ IncreaseLiquidity(p, amount, timestamp)
             \/ DecreaseLiquidity(p, amount, timestamp)
        \/ \E timestamp \in Timestamps : UpdateFeesAndRewards(p, timestamp)
        \/ CollectFees(p)
        \/ \E i \in RewardIndex : CollectReward(p, i)
        \/ ClosePosition(p)
  BY DEF PositionNext
<1>2. /\ TypeOK /\ positions \in AllPositions /\ positions' \in AllPositions
      /\ RangesSound(positions) /\ positions[p] \in Position
  BY DEF BookIInv, Book, IInv, TypeOK, AllPositions
<1>3. ASSUME NEW position, positions' = [positions EXCEPT ![p] = position],
             UNCHANGED <<liquidity, tick_current_index, ticks, swap>>, Idle,
             position.liquidity = positions[p].liquidity,
             \/ position.liquidity = 0
             \/ /\ position.tick_lower_index = positions[p].tick_lower_index
                /\ position.tick_upper_index = positions[p].tick_upper_index,
             IF position.state = "open"
             THEN /\ position.tick_lower_index \in UsableTicks
                  /\ position.tick_upper_index \in UsableTicks
                  /\ position.tick_lower_index < position.tick_upper_index
             ELSE position.liquidity = 0
      PROVE  Book'
  <2>1. /\ positions'[p] = position
        /\ \A q \in PositionIds : q # p => positions'[q] = positions[q]
    BY <1>2, <1>3 DEF AllPositions
  <2>2. SameBook(positions, positions')
    BY <1>3, <2>1 DEF SameBook
  <2>3. RangesSound(positions')
    BY <1>2, <1>3, <2>1 DEF RangesSound
  <2> QED
    BY <1>3, <2>2, <2>3, BookQuietStep
<1>4. ASSUME NEW range \in PositionRanges, OpenPosition(p, range[1], range[2])
      PROVE  Book'
  <2> DEFINE lower == range[1]
             upper == range[2]
  <2>1. lower \in Int /\ upper \in Int
    BY PoolAssumption
  <2>2. /\ positions[p].state = "none" /\ lower < upper
        /\ check_is_usable_tick(lower) /\ check_is_usable_tick(upper)
        /\ positions' = [positions EXCEPT ![p] = BlankPosition("open", lower, upper)]
        /\ Idle /\ UNCHANGED <<liquidity, tick_current_index, ticks, swap>>
    BY <1>4 DEF OpenPosition
  <2> HIDE DEF lower, upper
  <2>3. lower \in UsableTicks /\ upper \in UsableTicks
    BY <2>1, <2>2, TickRangeAssumption
    DEF check_is_usable_tick, check_is_out_of_bounds, UsableTicks, TickIndices
  <2>4. positions[p].liquidity = 0
    BY <1>2, <2>2 DEF RangesSound
  <2> DEFINE position == BlankPosition("open", lower, upper)
  <2>5. /\ position.liquidity = 0 /\ position.state = "open"
        /\ position.tick_lower_index = lower /\ position.tick_upper_index = upper
    BY DEF BlankPosition
  <2> HIDE DEF position
  <2> QED
    BY <1>3, <2>2, <2>3, <2>4, <2>5 DEF position
<1>5. ASSUME NEW amount \in LiquidityAmounts, NEW timestamp \in Timestamps,
             \/ IncreaseLiquidity(p, amount, timestamp)
             \/ DecreaseLiquidity(p, amount, timestamp)
      PROVE  Book'
  <2>1. amount \in Int /\ timestamp \in U64
    BY PoolAssumption, Widths
  <2>2. PICK delta \in {amount, -amount} :
          /\ Idle /\ positions[p].state = "open"
          /\ ModifyLiquidity(p, delta, timestamp)
          /\ UNCHANGED <<tick_current_index, swap>>
    BY <1>5 DEF IncreaseLiquidity, DecreaseLiquidity, convert_to_liquidity_delta
  <2>3. delta \in Int
    BY <2>1
  <2> QED
    BY <2>1, <2>2, <2>3, ModifyKeepsBook
<1>6. ASSUME NEW timestamp \in Timestamps, UpdateFeesAndRewards(p, timestamp)
      PROVE  Book'
  <2> DEFINE infos    == RewardInfosAt(timestamp)
             position == PositionUpdate(positions[p], 0, infos)
  <2>1. /\ positions[p].state = "open" /\ add_liquidity_delta(positions[p].liquidity, 0) # Err
        /\ positions' = [positions EXCEPT ![p] = position]
        /\ Idle /\ UNCHANGED <<liquidity, tick_current_index, ticks, swap>>
    BY <1>6 DEF UpdateFeesAndRewards, ModifyLiquidityFails
  <2> HIDE DEF infos
  <2>2. LiquidityAdded(positions, positions', p, 0)
    <3>1. 0 \in Int
      OBVIOUS
    <3> QED
      BY <1>2, <2>1, <3>1, PositionAdded
  <2>3. positions'[p] = position
    BY <1>2, <2>1 DEF AllPositions
  <2>4. positions[p].liquidity \in Int
    <3>1. positions[p].liquidity \in U128
      BY <1>2 DEF Position
    <3>2. U128 \subseteq Int
      BY Widths
    <3> QED
      BY <3>1, <3>2
  <2>5. /\ position.liquidity = positions[p].liquidity /\ position.state = "open"
        /\ position.tick_lower_index = positions[p].tick_lower_index
        /\ position.tick_upper_index = positions[p].tick_upper_index
    BY <2>1, <2>2, <2>3, <2>4 DEF LiquidityAdded
  <2> HIDE DEF position
  <2> QED
    BY <1>2, <1>3, <2>1, <2>5 DEF RangesSound
<1>7. ASSUME CollectFees(p)
      PROVE  Book'
  <2> DEFINE position == [positions[p] EXCEPT !.fee_owed = [x \in Token |-> 0]]
  <2>1. /\ positions[p].state = "open"
        /\ positions' = [positions EXCEPT ![p] = position]
        /\ Idle /\ UNCHANGED <<liquidity, tick_current_index, ticks, swap>>
    BY <1>7 DEF CollectFees
  <2>2. /\ position.liquidity = positions[p].liquidity /\ position.state = positions[p].state
        /\ position.tick_lower_index = positions[p].tick_lower_index
        /\ position.tick_upper_index = positions[p].tick_upper_index
    BY <1>2 DEF Position
  <2> HIDE DEF position
  <2> QED
    BY <1>2, <1>3, <2>1, <2>2 DEF RangesSound
<1>8. ASSUME NEW i \in RewardIndex, CollectReward(p, i)
      PROVE  Book'
  <2> DEFINE collected == CollectedReward(positions[p].amount_owed[i], reward_vault[i])
             owed == positions[p].amount_owed[i] - collected
             position == [positions[p] EXCEPT !.amount_owed[i] = owed]
  <2>1. /\ positions[p].state = "open"
        /\ positions' = [positions EXCEPT ![p] = position]
        /\ Idle /\ UNCHANGED <<liquidity, tick_current_index, ticks, swap>>
    BY <1>2, <1>8 DEF CollectReward, AllPositions
  <2> HIDE DEF owed
  <2>2. /\ position.liquidity = positions[p].liquidity /\ position.state = positions[p].state
        /\ position.tick_lower_index = positions[p].tick_lower_index
        /\ position.tick_upper_index = positions[p].tick_upper_index
    BY <1>2 DEF Position
  <2> HIDE DEF position
  <2> QED
    BY <1>2, <1>3, <2>1, <2>2 DEF RangesSound
<1>9. ASSUME ClosePosition(p)
      PROVE  Book'
  <2> DEFINE position == BlankPosition("closed", 0, 0)
  <2>1. /\ positions[p].liquidity = 0
        /\ positions' = [positions EXCEPT ![p] = position]
        /\ Idle /\ UNCHANGED <<liquidity, tick_current_index, ticks, swap>>
    BY <1>9 DEF ClosePosition, is_position_empty
  <2>2. position.liquidity = 0 /\ position.state = "closed"
    BY DEF BlankPosition
  <2> HIDE DEF position
  <2> QED
    BY <1>3, <2>1, <2>2
<1> QED
  BY <1>1, <1>4, <1>5, <1>6, <1>7, <1>8, <1>9

\* The instructions on the rest of an idle pool have nothing to do with it.
LEMMA BookOtherStep ==
  ASSUME BookIInv, IInv',
         \/ RewardNext \/ ConfigNext \/ CollectProtocolFees
         \/ \E start \in MIN_ARRAY_START .. MAX_TICK_INDEX : InitializeTickArray(start)
  PROVE  Book'
<1> USE DEF config, curve, fees, rewards
<1>1. Idle /\ UNCHANGED <<liquidity, tick_current_index, ticks, swap, positions>>
  <2>1. CASE RewardNext
    BY <2>1 DEF RewardNext, InitializeReward, DepositReward, SetRewardEmissions
  <2>2. CASE ConfigNext
    BY <2>2 DEF ConfigNext, SetEnableFlag, SetFeeRate, SetProtocolFeeRate
  <2>3. CASE \/ CollectProtocolFees
             \/ \E start \in MIN_ARRAY_START .. MAX_TICK_INDEX : InitializeTickArray(start)
    BY <2>3 DEF CollectProtocolFees, InitializeTickArray
  <2> QED
    BY <2>1, <2>2, <2>3
<1>2. SameBook(positions, positions') /\ RangesSound(positions')
  BY <1>1 DEF SameBook, BookIInv, Book
<1> QED
  BY <1>1, <1>2, BookQuietStep

\* A swap begins with the account's book, and the account takes over the loop's
\* or keeps its own (swap_manager.rs:24, swap_utils.rs:6).
LEMMA BookSwapStep ==
  ASSUME BookIInv, IInv',
         \/ \E r \in SwapRequests, timestamp \in Timestamps : SwapBegin(r, timestamp)
         \/ SwapProgress
  PROVE  Book'
<1> USE DEF config, curve, fees, rewards
<1>1. IInv /\ RangesSound(positions) /\ AccountBooked /\ SwapBooked
  BY DEF BookIInv, Book
<1>2. ASSUME NEW r \in SwapRequests, NEW timestamp \in Timestamps, SwapBegin(r, timestamp)
      PROVE  Book'
  <2>1. /\ swap' = StartedSwap(r, timestamp)
        /\ UNCHANGED <<liquidity, tick_current_index, ticks, positions>>
    BY <1>2 DEF SwapBegin
  <2>2. /\ swap'.curr_liquidity = liquidity /\ swap'.curr_tick_index = tick_current_index
        /\ swap'.ticks = ticks
    BY <2>1 DEF StartedSwap
  <2> QED
    BY <1>1, <2>1, <2>2 DEF Book, AccountBooked, SwapBooked
<1>3. ASSUME SwapStep
      PROVE  Book'
  <2>1. PICK c : StepComputed(swap, c) /\ SwapMoves(swap, c)
    BY <1>1, <1>3, SwapIteration
  <2>2. UNCHANGED <<liquidity, tick_current_index, ticks, positions>>
    BY <2>1 DEF SwapMoves
  <2>3. swap \in SwapState
    BY <1>1, <2>1 DEF StepComputed, IInv, TypeOK, Idle
  <2>4. /\ swap'.curr_liquidity = LiquidityAfter(swap, c)
        /\ swap'.curr_tick_index = TickAfter(swap, c)
        /\ swap'.ticks = TicksAfter(swap, c)
    BY <2>1, <2>3 DEF SwapMoves, SwapState
  <2>5. Booked(positions, LiquidityAfter(swap, c), TickAfter(swap, c), TicksAfter(swap, c))
    BY <2>1, BookAfterIteration
  <2> QED
    BY <1>1, <2>2, <2>4, <2>5 DEF Book, AccountBooked, SwapBooked
<1>4. ASSUME SwapCommit
      PROVE  Book'
  <2>1. /\ ~Idle /\ Idle'
        /\ liquidity' = swap.curr_liquidity /\ tick_current_index' = swap.curr_tick_index
        /\ ticks' = swap.ticks /\ positions' = positions
    BY <1>4 DEF SwapCommit, UpdateAndSwap, Idle
  <2> QED
    BY <1>1, <2>1 DEF Book, AccountBooked, SwapBooked
<1>5. ASSUME SwapFail
      PROVE  Book'
  <2>1. Idle' /\ UNCHANGED <<liquidity, tick_current_index, ticks, positions>>
    BY <1>5 DEF SwapFail, Idle
  <2> QED
    BY <1>1, <2>1 DEF Book, AccountBooked, SwapBooked
<1> QED
  BY <1>2, <1>3, <1>4, <1>5 DEF SwapProgress

\* In a new pool there is nothing to book.
LEMMA BookInit ==
  ASSUME Init, IInv PROVE Book
<1>1. /\ positions = [p \in PositionIds |-> BlankPosition("none", 0, 0)]
      /\ ticks = [t \in UsableTicks |-> DefaultTick] /\ liquidity = 0 /\ Idle
      /\ positions \in AllPositions /\ tick_current_index \in Int
  BY DEF Init, InitializePool, Idle, IInv, TypeOK, AllPositions
<1>2. \A p \in PositionIds : positions[p].liquidity = 0 /\ positions[p].state = "none"
  BY <1>1 DEF BlankPosition
<1>3. RangesSound(positions)
  BY <1>2 DEF RangesSound
<1>4. ASSUME NEW t \in Int
      PROVE  /\ Sum(RangeShare(positions, t)) = 0 /\ Sum(LowerShare(positions, t)) = 0
             /\ Sum(UpperShare(positions, t)) = 0
  <2>1. /\ RangeShare(positions, t) \in Amounts /\ LowerShare(positions, t) \in Amounts
        /\ UpperShare(positions, t) \in Amounts
    BY <1>1, ShareTypes
  <2>2. \A p \in PositionIds : /\ RangeShare(positions, t)[p] = 0
                               /\ LowerShare(positions, t)[p] = 0
                               /\ UpperShare(positions, t)[p] = 0
    BY <1>2 DEF RangeShare, LowerShare, UpperShare
  <2> QED
    BY <2>1, <2>2, SumOfZeros
<1>5. \A t \in UsableTicks : TickBooked(positions, t, ticks[t])
  <2> TAKE t \in UsableTicks
  <2>1. t \in Int
    BY ArrayTypes
  <2>2. ticks[t].liquidity_gross = 0 /\ ticks[t].liquidity_net = 0 /\ ~ticks[t].initialized
    BY <1>1 DEF DefaultTick
  <2> QED
    BY <1>4, <2>1, <2>2 DEF TickBooked
<1>6. AccountBooked
  BY <1>1, <1>4, <1>5 DEF AccountBooked, Booked
<1> QED
  BY <1>1, <1>3, <1>6 DEF Book, SwapBooked

-----------------------------------------------------------------------------
(* The theorem *)

\* Both books are kept by every instruction and every iteration of a swap.
THEOREM BooksKept == Spec => []BookIInv
<1>1. Init /\ IInv => Book
  BY BookInit
<1>2. IInv /\ Book /\ IInv' /\ [Next]_vars => Book'
  <2> SUFFICES ASSUME IInv, Book, IInv', [Next]_vars PROVE Book'
    OBVIOUS
  <2>1. BookIInv
    BY DEF BookIInv
  <2>2. CASE UNCHANGED vars
    <3>1. UNCHANGED <<liquidity, tick_current_index, ticks, positions, swap>>
      BY <2>2 DEF vars, curve
    <3> QED
      BY <3>1 DEF Book, AccountBooked, SwapBooked, Idle
  <2>3. CASE PositionNext
    BY <2>1, <2>3, BookPositionStep
  <2>4. CASE \/ RewardNext \/ ConfigNext \/ CollectProtocolFees
             \/ \E start \in MIN_ARRAY_START .. MAX_TICK_INDEX : InitializeTickArray(start)
    BY <2>1, <2>4, BookOtherStep
  <2>5. CASE \/ \E r \in SwapRequests, timestamp \in Timestamps : SwapBegin(r, timestamp)
             \/ SwapProgress
    BY <2>1, <2>5, BookSwapStep
  <2> QED
    BY <2>2, <2>3, <2>4, <2>5 DEF Next
<1>3. Spec => []IInv
  BY Invariance
<1>4. BookIInv <=> IInv /\ Book
  BY DEF BookIInv
<1> QED
  BY <1>1, <1>2, <1>3, <1>4, PTL DEF Spec

\* The pool's liquidity and its ticks agree with the positions, however many
\* there are: after every deposit and withdrawal, and after every iteration of
\* the swap loop (manager/swap_manager.rs:65, manager/liquidity_manager.rs:122).
THEOREM LiquidityBooked == Spec => []LiquidityBook
<1>1. BookIInv => LiquidityBook
  <2> SUFFICES ASSUME BookIInv PROVE LiquidityBook
    OBVIOUS
  <2>1. /\ \A t : LiquidityInRange(t) = Sum(RangeShare(positions, t))
        /\ \A t : LiquidityFrom(t) = Sum(LowerShare(positions, t))
        /\ \A t : LiquidityUpTo(t) = Sum(UpperShare(positions, t))
    BY DEF LiquidityInRange, LiquidityFrom, LiquidityUpTo, RangeShare, LowerShare, UpperShare
  <2>2. Booked(positions, CurrLiquidity, CurrTick, CurrTicks)
    BY DEF BookIInv, Book, AccountBooked, SwapBooked, CurrLiquidity, CurrTick, CurrTicks
  <2> QED
    BY <2>1, <2>2
    DEF LiquidityBook, LiquidityMatchesPositions, TicksMatchPositions, Booked, TickBooked
<1> QED
  BY <1>1, BooksKept, PTL
=============================================================================
