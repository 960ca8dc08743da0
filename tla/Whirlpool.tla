------------------------------- MODULE Whirlpool -------------------------------
(***************************************************************************)
(* One pool: the Whirlpool account, its tick arrays, its positions and its *)
(* token vaults, with every instruction that changes them (instructions/,  *)
(* manager/, state/whirlpool.rs, state/position.rs).                       *)
(*                                                                         *)
(* An instruction runs in a transaction: it either takes all its effects   *)
(* or none.  Each instruction is therefore one action, whose guard is the  *)
(* conjunction of the checks that would make it return an error.  The swap *)
(* is the exception.  Its loop is modelled iteration by iteration, with    *)
(* the loop's locals in the variable swap, so that the properties speak of *)
(* the loop's intermediate states too; while it runs, the transaction has  *)
(* the pool write-locked, and no other action is enabled.                  *)
(*                                                                         *)
(* Signers, mints and account addresses are left out: an action stands for *)
(* the instruction sent by whoever may send it.  A caller's bounds on the  *)
(* amounts to pay or receive (token_max, token_min) can only turn a        *)
(* success into a failure, which changes nothing; only swap's threshold is *)
(* kept.                                                                   *)
(***************************************************************************)
EXTENDS TickArrays, TickManager

CONSTANTS
  NumPositions,          \* positions are numbered 1 .. NumPositions
  DAY_IN_SECONDS,        \* 86_400 in the code
  TokenSupply,           \* [Token -> U64]: all there is of each token
  (* the arguments instructions are called with *)
  InitialSqrtPrices, PositionRanges, LiquidityAmounts, SwapRequests, Timestamps,
  FeeRates, ProtocolFeeRates, EmissionRates, RewardDeposits, EnableFlags

PositionIds == 1 .. NumPositions

SwapRequest ==
  [amount : U64, other_amount_threshold : U64, sqrt_price_limit : U128,
   is_input : BOOLEAN, a_to_b : BOOLEAN, arrays : Seq(Int)]

ASSUME PoolAssumption ==
  /\ NumPositions \in Nat /\ DAY_IN_SECONDS \in Nat
  /\ TokenSupply \in [Token -> U64]
  /\ InitialSqrtPrices \subseteq U128
  /\ PositionRanges \subseteq Int \X Int
  /\ LiquidityAmounts \subseteq U128
  /\ SwapRequests \subseteq SwapRequest
  /\ Timestamps \subseteq U64
  /\ FeeRates \subseteq Nat /\ ProtocolFeeRates \subseteq Nat
  /\ EmissionRates \subseteq U128 /\ RewardDeposits \subseteq U64
  /\ EnableFlags \subseteq BOOLEAN

VARIABLES
  is_enabled, fee_rate, protocol_fee_rate,            \* configuration of the pool
  liquidity, sqrt_price, tick_current_index,          \* its place on the curve
  fee_growth_global, protocol_fee_owed,               \* fees, per token
  reward_infos, reward_last_updated_timestamp,        \* rewards
  tick_arrays,                                        \* start ticks of the arrays that exist
  ticks,                                              \* the contents of all arrays
  positions,
  vault, reward_vault,                                \* balances of the token vaults
  swap                                                \* locals of the swap loop, or NoSwap

config  == <<is_enabled, fee_rate, protocol_fee_rate>>
curve   == <<liquidity, sqrt_price, tick_current_index>>
fees    == <<fee_growth_global, protocol_fee_owed>>
rewards == <<reward_infos, reward_last_updated_timestamp>>

vars == <<config, curve, fees, rewards, tick_arrays, ticks, positions, vault,
          reward_vault, swap>>

-----------------------------------------------------------------------------
(* State *)

Position ==
  [state : {"none", "open", "closed"},
   tick_lower_index : Int, tick_upper_index : Int, liquidity : U128,
   fee_growth_checkpoint : [Token -> U128], fee_owed : [Token -> U64],
   growth_inside_checkpoint : [RewardIndex -> U128], amount_owed : [RewardIndex -> U64]]

BlankPosition(state, lower, upper) ==
  [state |-> state, tick_lower_index |-> lower, tick_upper_index |-> upper, liquidity |-> 0,
   fee_growth_checkpoint |-> [x \in Token |-> 0], fee_owed |-> [x \in Token |-> 0],
   growth_inside_checkpoint |-> [i \in RewardIndex |-> 0],
   amount_owed |-> [i \in RewardIndex |-> 0]]

\* The locals of the swap loop; ticks holds the arrays as the running swap has
\* them, which the runtime discards if the instruction fails.
SwapState ==
  [request : SwapRequest, timestamp : U64,
   amount_remaining : U64, amount_calculated : U64, curr_sqrt_price : U128,
   curr_tick_index : Int, curr_liquidity : U128, curr_protocol_fee : U64,
   curr_array_index : Nat, curr_growth : U128, ticks : [UsableTicks -> Tick]]

NoSwap == [request |-> "none"]

Idle == swap = NoSwap

TypeOK ==
  /\ is_enabled \in BOOLEAN
  /\ fee_rate \in 0 .. MAX_FEE_RATE
  /\ protocol_fee_rate \in 0 .. MAX_PROTOCOL_FEE_RATE
  /\ liquidity \in U128 /\ sqrt_price \in U128 /\ tick_current_index \in Int
  /\ fee_growth_global \in [Token -> U128] /\ protocol_fee_owed \in [Token -> U64]
  /\ reward_infos \in [RewardIndex -> WhirlpoolRewardInfo]
  /\ reward_last_updated_timestamp \in U64
  /\ tick_arrays \subseteq Int
  /\ ticks \in [UsableTicks -> Tick]
  /\ positions \in [PositionIds -> Position]
  /\ vault \in [Token -> U64] /\ reward_vault \in [RewardIndex -> U64]
  /\ swap = NoSwap \/ swap \in SwapState

\* initialize_pool: nothing has been deposited yet.
InitializePool ==
  /\ is_enabled = TRUE
  /\ fee_rate \in {r \in FeeRates : r <= MAX_FEE_RATE}
  /\ protocol_fee_rate \in {r \in ProtocolFeeRates : r <= MAX_PROTOCOL_FEE_RATE}
  /\ liquidity = 0
  /\ sqrt_price \in {p \in InitialSqrtPrices : MIN_SQRT_PRICE_X64 <= p /\ p <= MAX_SQRT_PRICE_X64}
  /\ tick_current_index = tick_index_from_sqrt_price(sqrt_price)
  /\ fee_growth_global = [x \in Token |-> 0]
  /\ protocol_fee_owed = [x \in Token |-> 0]
  /\ reward_infos = [i \in RewardIndex |-> [initialized |-> FALSE,
                       emissions_per_second_x64 |-> 0, growth_global_x64 |-> 0]]
  /\ reward_last_updated_timestamp = 0
  /\ ticks = [t \in UsableTicks |-> DefaultTick]
  /\ positions = [p \in PositionIds |-> BlankPosition("none", 0, 0)]
  /\ vault = [x \in Token |-> 0]
  /\ reward_vault = [i \in RewardIndex |-> 0]
  /\ swap = NoSwap

Init == InitializePool /\ tick_arrays = {}

-----------------------------------------------------------------------------
(* Token transfers (util/token.rs): the token program refuses to overdraw. *)

TransferFromOwner(amounts) ==
  /\ \A x \in Token : vault[x] + amounts[x] <= TokenSupply[x]
  /\ vault' = [x \in Token |-> vault[x] + amounts[x]]

TransferToOwner(amounts) ==
  /\ \A x \in Token : amounts[x] <= vault[x]
  /\ vault' = [x \in Token |-> vault[x] - amounts[x]]

-----------------------------------------------------------------------------
(* Tick arrays and positions *)

\* PDA seeds make the array of a start tick unique.
InitializeTickArray(start) ==
  /\ Idle
  /\ start \notin tick_arrays
  /\ check_is_valid_start_tick(start)
  /\ tick_arrays' = tick_arrays \cup {start}
  /\ UNCHANGED <<config, curve, fees, rewards, ticks, positions, vault, reward_vault, swap>>

\* The mint of a position is a fresh key: a number is used once.
OpenPosition(p, lower, upper) ==
  /\ Idle
  /\ is_enabled
  /\ positions[p].state = "none"
  /\ check_is_usable_tick(lower) /\ check_is_usable_tick(upper) /\ lower < upper
  /\ positions' = [positions EXCEPT ![p] = BlankPosition("open", lower, upper)]
  /\ UNCHANGED <<config, curve, fees, rewards, tick_arrays, ticks, vault, reward_vault, swap>>

is_position_empty(position) ==
  /\ position.liquidity = 0
  /\ \A x \in Token : position.fee_owed[x] = 0
  /\ \A i \in RewardIndex : position.amount_owed[i] = 0

\* Mutant: a disabled pool lets positions go.
ClosePositionWhenDisabled(p) ==
  /\ Idle
  /\ positions[p].state = "open"
  /\ is_position_empty(positions[p])
  /\ positions' = [positions EXCEPT ![p] = BlankPosition("closed", 0, 0)]
  /\ UNCHANGED <<config, curve, fees, rewards, tick_arrays, ticks, vault, reward_vault, swap>>

ClosePosition(p) ==
  /\ Idle
  /\ positions[p].state = "open"
  /\ is_position_empty(positions[p])
  /\ is_enabled
  /\ positions' = [positions EXCEPT ![p] = BlankPosition("closed", 0, 0)]
  /\ UNCHANGED <<config, curve, fees, rewards, tick_arrays, ticks, vault, reward_vault, swap>>

-----------------------------------------------------------------------------
(* Liquidity (manager/liquidity_manager.rs) *)

RewardInfosAt(timestamp) ==
  next_whirlpool_reward_infos(reward_infos, liquidity, reward_last_updated_timestamp, timestamp)

\* The arrays that hold a position's boundary ticks exist.
HasTickArrays(position) ==
  \A t \in {position.tick_lower_index, position.tick_upper_index} :
    \E start \in tick_arrays : HoldsTick(start, t)

FeeGrowthsInside(position) ==
  next_fee_growths_inside(tick_current_index,
    ticks[position.tick_lower_index], position.tick_lower_index,
    ticks[position.tick_upper_index], position.tick_upper_index, fee_growth_global)

RewardGrowthsInside(position, infos) ==
  next_reward_growths_inside(tick_current_index,
    ticks[position.tick_lower_index], position.tick_lower_index,
    ticks[position.tick_upper_index], position.tick_upper_index, infos)

PositionUpdate(position, delta, infos) ==
  next_position_modify_liquidity_update(position, delta, FeeGrowthsInside(position),
                                        RewardGrowthsInside(position, infos))

NextLiquidity(position, delta) ==
  next_whirlpool_liquidity(liquidity, tick_current_index,
    position.tick_lower_index, position.tick_upper_index, delta)

TickUpdate(position, t, delta, infos) ==
  next_tick_modify_liquidity_update(ticks[t], t, tick_current_index, fee_growth_global, infos,
                                    delta, t = position.tick_upper_index)

\* The checks shared by every computation on a position's liquidity.
ModifyLiquidityFails(position, delta, timestamp) ==
  \/ ~HasTickArrays(position)
  \/ delta = 0 /\ position.liquidity = 0
  \/ timestamp < reward_last_updated_timestamp
  \/ NextLiquidity(position, delta) = Err
  \/ add_liquidity_delta(position.liquidity, delta) = Err
  \/ TickUpdateFails(ticks[position.tick_lower_index], delta, FALSE)
  \/ TickUpdateFails(ticks[position.tick_upper_index], delta, TRUE)

\* sync_modify_liquidity_values with what calculate_modify_liquidity computed.
ModifyLiquidity(p, delta, timestamp) ==
  LET position == positions[p]
      infos    == RewardInfosAt(timestamp)
      bounds   == {position.tick_lower_index, position.tick_upper_index}
  IN  /\ ~ModifyLiquidityFails(position, delta, timestamp)
      /\ positions' = [positions EXCEPT ![p] = PositionUpdate(position, delta, infos)]
      /\ ticks' = [t \in UsableTicks |->
                     IF t \in bounds THEN TickUpdate(position, t, delta, infos) ELSE ticks[t]]
      /\ reward_infos' = infos
      /\ reward_last_updated_timestamp' = timestamp
      /\ liquidity' = NextLiquidity(position, delta)

\* What a change of liquidity costs (rounded up) or yields (rounded down).
calculate_liquidity_token_deltas(current, price, position, delta) ==
  LET lower    == sqrt_price_from_tick_index(position.tick_lower_index)
      upper    == sqrt_price_from_tick_index(position.tick_upper_index)
      amount   == IF delta < 0 THEN -delta ELSE delta
      round_up == delta > 0
  IN  [x \in Token |->
        IF x = "a"
        THEN IF current < position.tick_lower_index
             THEN get_amount_delta_a(lower, upper, amount, round_up)
             ELSE IF current < position.tick_upper_index
             THEN get_amount_delta_a(price, upper, amount, round_up)
             ELSE 0
        ELSE IF current < position.tick_lower_index THEN 0
             ELSE IF current < position.tick_upper_index
             THEN get_amount_delta_b(lower, price, amount, round_up)
             ELSE get_amount_delta_b(lower, upper, amount, round_up)]

TokenDeltas(p, delta) ==
  calculate_liquidity_token_deltas(tick_current_index, sqrt_price, positions[p], delta)

IncreaseLiquidity(p, liquidity_amount, timestamp) ==
  LET delta  == convert_to_liquidity_delta(liquidity_amount, TRUE)
      deltas == TokenDeltas(p, delta)
  IN  /\ Idle
      /\ is_enabled
      /\ positions[p].state = "open"
      /\ liquidity_amount # 0 /\ FitsLiquidityDelta(liquidity_amount)
      /\ ModifyLiquidity(p, delta, timestamp)
      /\ \A x \in Token : deltas[x] # Err
      /\ TransferFromOwner(deltas)
      /\ UNCHANGED <<config, sqrt_price, tick_current_index, fees, tick_arrays,
                     reward_vault, swap>>

DecreaseLiquidity(p, liquidity_amount, timestamp) ==
  LET delta  == convert_to_liquidity_delta(liquidity_amount, FALSE)
      deltas == TokenDeltas(p, delta)
  IN  /\ Idle
      /\ is_enabled
      /\ positions[p].state = "open"
      /\ liquidity_amount # 0 /\ FitsLiquidityDelta(liquidity_amount)
      /\ ModifyLiquidity(p, delta, timestamp)
      /\ \A x \in Token : deltas[x] # Err
      /\ TransferToOwner(deltas)
      /\ UNCHANGED <<config, sqrt_price, tick_current_index, fees, tick_arrays,
                     reward_vault, swap>>

\* Growth only; the pool need not be enabled.
UpdateFeesAndRewards(p, timestamp) ==
  LET infos == RewardInfosAt(timestamp)
  IN  /\ Idle
      /\ positions[p].state = "open"
      /\ ~ModifyLiquidityFails(positions[p], 0, timestamp)
      /\ positions' = [positions EXCEPT ![p] = PositionUpdate(positions[p], 0, infos)]
      /\ reward_infos' = infos
      /\ reward_last_updated_timestamp' = timestamp
      /\ UNCHANGED <<config, curve, fees, tick_arrays, ticks, vault, reward_vault, swap>>

-----------------------------------------------------------------------------
(* Collecting *)

CollectFees(p) ==
  /\ Idle
  /\ positions[p].state = "open"
  /\ TransferToOwner(positions[p].fee_owed)
  /\ positions' = [positions EXCEPT ![p].fee_owed = [x \in Token |-> 0]]
  /\ UNCHANGED <<config, curve, fees, rewards, tick_arrays, ticks, reward_vault, swap>>

CollectProtocolFees ==
  /\ Idle
  /\ TransferToOwner(protocol_fee_owed)
  /\ protocol_fee_owed' = [x \in Token |-> 0]
  /\ UNCHANGED <<config, curve, fee_growth_global, rewards, tick_arrays, ticks, positions,
                 reward_vault, swap>>

\* calculate_collect_reward: as much of what is owed as the vault holds.
CollectedReward(amount_owed, vault_amount) ==
  IF amount_owed > vault_amount THEN vault_amount ELSE amount_owed

\* Mutant: what the vault could not pay is forgotten.
CollectRewardForgetsRest(p, i) ==
  LET paid == CollectedReward(positions[p].amount_owed[i], reward_vault[i])
  IN  /\ Idle
      /\ positions[p].state = "open"
      /\ reward_infos[i].initialized
      /\ positions' = [positions EXCEPT ![p].amount_owed[i] = 0]
      /\ reward_vault' = [reward_vault EXCEPT ![i] = @ - paid]
      /\ UNCHANGED <<config, curve, fees, rewards, tick_arrays, ticks, vault, swap>>

\* The account constraint on the vault's address needs an initialized reward.
CollectReward(p, i) ==
  LET paid == CollectedReward(positions[p].amount_owed[i], reward_vault[i])
  IN  /\ Idle
      /\ positions[p].state = "open"
      /\ reward_infos[i].initialized
      /\ positions' = [positions EXCEPT ![p].amount_owed[i] = @ - paid]
      /\ reward_vault' = [reward_vault EXCEPT ![i] = @ - paid]
      /\ UNCHANGED <<config, curve, fees, rewards, tick_arrays, ticks, vault, swap>>

-----------------------------------------------------------------------------
(* Rewards *)

\* Mutant: any index may be initialized, and again.
InitializeRewardAnywhere(i) ==
  /\ Idle
  /\ reward_infos' = [reward_infos EXCEPT ![i].initialized = TRUE]
  /\ UNCHANGED <<config, curve, fees, reward_last_updated_timestamp, tick_arrays, ticks,
                 positions, vault, reward_vault, swap>>

\* Whirlpool::initialize_reward: only the lowest uninitialized index.
InitializeReward(i) ==
  /\ Idle
  /\ ~reward_infos[i].initialized
  /\ \A j \in RewardIndex : j < i => reward_infos[j].initialized
  /\ reward_infos' = [reward_infos EXCEPT ![i].initialized = TRUE]
  /\ UNCHANGED <<config, curve, fees, reward_last_updated_timestamp, tick_arrays, ticks,
                 positions, vault, reward_vault, swap>>

\* External: anybody may send tokens to a reward vault.
DepositReward(i, amount) ==
  /\ Idle
  /\ reward_infos[i].initialized
  /\ reward_vault[i] + amount \in U64
  /\ reward_vault' = [reward_vault EXCEPT ![i] = @ + amount]
  /\ UNCHANGED <<config, curve, fees, rewards, tick_arrays, ticks, positions, vault, swap>>

EmissionsPerDay(emissions) == checked_mul_shift_right(DAY_IN_SECONDS, emissions)

SetRewardEmissions(i, emissions, timestamp) ==
  /\ Idle
  /\ reward_infos[i].initialized
  /\ EmissionsPerDay(emissions) # Err
  /\ reward_vault[i] >= EmissionsPerDay(emissions)
  /\ timestamp >= reward_last_updated_timestamp
  /\ reward_infos' = [RewardInfosAt(timestamp) EXCEPT ![i].emissions_per_second_x64 = emissions]
  /\ reward_last_updated_timestamp' = timestamp
  /\ UNCHANGED <<config, curve, fees, tick_arrays, ticks, positions, vault, reward_vault, swap>>

-----------------------------------------------------------------------------
(* Configuration of the pool *)

SetEnableFlag(enabled) ==
  /\ Idle
  /\ is_enabled' = enabled
  /\ UNCHANGED <<fee_rate, protocol_fee_rate, curve, fees, rewards, tick_arrays, ticks,
                 positions, vault, reward_vault, swap>>

SetFeeRate(rate) ==
  /\ Idle
  /\ rate <= MAX_FEE_RATE
  /\ fee_rate' = rate
  /\ UNCHANGED <<is_enabled, protocol_fee_rate, curve, fees, rewards, tick_arrays, ticks,
                 positions, vault, reward_vault, swap>>

SetProtocolFeeRate(rate) ==
  /\ Idle
  /\ rate <= MAX_PROTOCOL_FEE_RATE
  /\ protocol_fee_rate' = rate
  /\ UNCHANGED <<is_enabled, fee_rate, curve, fees, rewards, tick_arrays, ticks,
                 positions, vault, reward_vault, swap>>

-----------------------------------------------------------------------------
(* Swap (instructions/swap.rs, manager/swap_manager.rs).  The operators    *)
(* below take the locals of the loop, s.                                   *)

InputToken(s)  == IF s.request.a_to_b THEN "a" ELSE "b"
OutputToken(s) == IF s.request.a_to_b THEN "b" ELSE "a"

\* The checks swap_manager.rs makes before the loop starts.
SwapRejected(r, timestamp) ==
  \/ r.sqrt_price_limit < MIN_SQRT_PRICE_X64 \/ r.sqrt_price_limit > MAX_SQRT_PRICE_X64
  \/ r.a_to_b /\ r.sqrt_price_limit > sqrt_price
  \/ ~r.a_to_b /\ r.sqrt_price_limit < sqrt_price
  \/ r.amount = 0
  \/ timestamp < reward_last_updated_timestamp

\* All the arrays passed are accounts of this pool; one that is passed twice
\* is already borrowed and dropped, so that the sequence has no repetition.
ValidArrays(arrays) ==
  /\ Len(arrays) \in 1 .. 3
  /\ \A i \in 1 .. Len(arrays) : arrays[i] \in tick_arrays
  /\ \A i, j \in 1 .. Len(arrays) : i # j => arrays[i] # arrays[j]

\* The locals of the loop as it starts.
StartedSwap(r, timestamp) ==
  [request |-> r, timestamp |-> timestamp,
   amount_remaining |-> r.amount, amount_calculated |-> 0,
   curr_sqrt_price |-> sqrt_price, curr_tick_index |-> tick_current_index,
   curr_liquidity |-> liquidity, curr_protocol_fee |-> 0, curr_array_index |-> 1,
   curr_growth |-> fee_growth_global[IF r.a_to_b THEN "a" ELSE "b"],
   ticks |-> ticks]

SwapBegin(r, timestamp) ==
  /\ Idle
  /\ is_enabled
  /\ ValidArrays(r.arrays)
  /\ ~SwapRejected(r, timestamp)
  /\ swap' = StartedSwap(r, timestamp)
  /\ UNCHANGED <<config, curve, fees, rewards, tick_arrays, ticks, positions, vault, reward_vault>>

\* Mutant: the loop goes on for as long as the limit is not reached.
LoopContinuesUntilLimit(s) ==
  s.amount_remaining > 0 \/ s.request.sqrt_price_limit # s.curr_sqrt_price

LoopContinues(s) == s.amount_remaining > 0 /\ s.request.sqrt_price_limit # s.curr_sqrt_price

NextInitTick(s) ==
  get_next_initialized_tick_index({t \in UsableTicks : s.ticks[t].initialized},
    s.request.arrays, s.curr_tick_index, s.request.a_to_b, s.curr_array_index)

NextTickPrice(s) == sqrt_price_from_tick_index(NextInitTick(s).tick_index)

Computation(s) ==
  compute_swap(s.amount_remaining, fee_rate, s.curr_liquidity, s.curr_sqrt_price,
    SqrtPriceTarget(NextTickPrice(s), s.request.sqrt_price_limit, s.request.a_to_b),
    s.request.is_input, s.request.a_to_b)

\* The amounts of one step that count as specified, and as the other token's.
SpecifiedAmount(s, c) == IF s.request.is_input THEN c.amount_in + c.fee_amount ELSE c.amount_out
OtherAmount(s, c)     == IF s.request.is_input THEN c.amount_out ELSE c.amount_in + c.fee_amount

StepFees(s, c) ==
  calculate_fees(c.fee_amount, protocol_fee_rate, s.curr_liquidity, s.curr_protocol_fee,
                 s.curr_growth)

ReachesTick(s, c) == c.next_price = NextTickPrice(s)

CrossesInitialized(s, c) ==
  LET next == NextInitTick(s)
  IN  /\ ReachesTick(s, c)
      /\ HoldsTick(s.request.arrays[next.array_index], next.tick_index)
      /\ s.ticks[next.tick_index].initialized

\* Mutant: the net liquidity of a crossed tick is always added.
LiquidityAfterUnsigned(s, c) ==
  IF CrossesInitialized(s, c)
  THEN add_liquidity_delta(s.curr_liquidity, s.ticks[NextInitTick(s).tick_index].liquidity_net)
  ELSE s.curr_liquidity

LiquidityAfter(s, c) ==
  LET net == s.ticks[NextInitTick(s).tick_index].liquidity_net
  IN  IF CrossesInitialized(s, c)
      THEN add_liquidity_delta(s.curr_liquidity, IF s.request.a_to_b THEN -net ELSE net)
      ELSE s.curr_liquidity

\* The global growths as the crossed tick sees them: this step's for the token
\* that pays the fee.
GrowthsAtCrossing(s, c) == [fee_growth_global EXCEPT ![InputToken(s)] = StepFees(s, c).growth]

TicksAfter(s, c) ==
  LET t == NextInitTick(s).tick_index
  IN  IF CrossesInitialized(s, c)
      THEN [s.ticks EXCEPT ![t] =
              next_tick_cross_update(@, GrowthsAtCrossing(s, c), RewardInfosAt(s.timestamp))]
      ELSE s.ticks

\* Mutant: the tick index is recomputed even when the price has not moved.
TickAfterUnguarded(s, c) ==
  IF ReachesTick(s, c)
  THEN IF s.request.a_to_b THEN NextInitTick(s).tick_index - 1 ELSE NextInitTick(s).tick_index
  ELSE tick_index_from_sqrt_price(c.next_price)

\* Mutant: a crossing moves the tick index one on, to the right as to the left.
TickAfterSymmetric(s, c) ==
  IF ReachesTick(s, c)
  THEN NextInitTick(s).tick_index + IF s.request.a_to_b THEN -1 ELSE 1
  ELSE IF c.next_price # s.curr_sqrt_price THEN tick_index_from_sqrt_price(c.next_price)
  ELSE s.curr_tick_index

\* After a crossing to the left the current tick is one below the tick whose
\* price is the current price, and it stays there until the price moves.
TickAfter(s, c) ==
  IF ReachesTick(s, c)
  THEN IF s.request.a_to_b THEN NextInitTick(s).tick_index - 1 ELSE NextInitTick(s).tick_index
  ELSE IF c.next_price # s.curr_sqrt_price THEN tick_index_from_sqrt_price(c.next_price)
  ELSE s.curr_tick_index

ArrayAfter(s, c) ==
  IF ReachesTick(s, c)
  THEN NextArrayIndex(s.request.arrays, NextInitTick(s).array_index, NextInitTick(s).tick_index,
                      s.request.a_to_b)
  ELSE s.curr_array_index

ComputationFails(s, c) ==
  \/ c = SwapStepError
  \/ CheckU64(s.amount_remaining - SpecifiedAmount(s, c)) = Err
  \/ CheckU64(s.amount_calculated + OtherAmount(s, c)) = Err
  \/ LiquidityAfter(s, c) = Err

StepFails(s) ==
  IF NextInitTick(s) = SearchFailed THEN TRUE ELSE ComputationFails(s, Computation(s))

\* One iteration of the loop.
SwapStep ==
  /\ ~Idle
  /\ LoopContinues(swap)
  /\ NextInitTick(swap) # SearchFailed
  /\ \E c \in {Computation(swap)} :
        /\ ~ComputationFails(swap, c)
        /\ swap' = [swap EXCEPT
           !.amount_remaining  = @ - SpecifiedAmount(swap, c),
           !.amount_calculated = @ + OtherAmount(swap, c),
           !.curr_protocol_fee = StepFees(swap, c).protocol_fee,
           !.curr_growth       = StepFees(swap, c).growth,
           !.curr_liquidity    = LiquidityAfter(swap, c),
           !.ticks             = TicksAfter(swap, c),
           !.curr_array_index  = ArrayAfter(swap, c),
           !.curr_tick_index   = TickAfter(swap, c),
           !.curr_sqrt_price   = c.next_price]
  /\ UNCHANGED <<config, curve, fees, rewards, tick_arrays, ticks, positions, vault, reward_vault>>

SpecifiedTotal(s) == s.request.amount - s.amount_remaining
AmountPaid(s)     == IF s.request.is_input THEN SpecifiedTotal(s) ELSE s.amount_calculated
AmountReceived(s) == IF s.request.is_input THEN s.amount_calculated ELSE SpecifiedTotal(s)

ThresholdMet(s) ==
  IF s.request.is_input THEN s.request.other_amount_threshold <= AmountReceived(s)
  ELSE s.request.other_amount_threshold >= AmountPaid(s)

\* perform_swap: the trader pays first, and is paid second.
CanTransfer(s) ==
  /\ vault[InputToken(s)] + AmountPaid(s) <= TokenSupply[InputToken(s)]
  /\ vault[OutputToken(s)] >= AmountReceived(s)

\* update_and_swap_whirlpool: the loop's results go into the account, and the
\* tokens move.
UpdateAndSwap ==
  /\ CanTransfer(swap)
  /\ tick_current_index' = swap.curr_tick_index
  /\ sqrt_price' = swap.curr_sqrt_price
  /\ liquidity' = swap.curr_liquidity
  /\ reward_infos' = RewardInfosAt(swap.timestamp)
  /\ reward_last_updated_timestamp' = swap.timestamp
  /\ fee_growth_global' = [fee_growth_global EXCEPT ![InputToken(swap)] = swap.curr_growth]
  /\ protocol_fee_owed' = [protocol_fee_owed EXCEPT
                             ![InputToken(swap)] = WrapU64(@ + swap.curr_protocol_fee)]
  /\ ticks' = swap.ticks
  /\ vault' = [vault EXCEPT ![InputToken(swap)] = @ + AmountPaid(swap),
                            ![OutputToken(swap)] = @ - AmountReceived(swap)]
  /\ swap' = NoSwap
  /\ UNCHANGED <<config, tick_arrays, positions, reward_vault>>

\* The loop is over and the instruction succeeds.
SwapCommit ==
  /\ ~Idle
  /\ ~LoopContinues(swap)
  /\ ThresholdMet(swap)
  /\ UpdateAndSwap

\* An error at any point undoes the instruction.
SwapFail ==
  /\ ~Idle
  /\ IF LoopContinues(swap) THEN StepFails(swap)
     ELSE ~ThresholdMet(swap) \/ ~CanTransfer(swap)
  /\ swap' = NoSwap
  /\ UNCHANGED <<config, curve, fees, rewards, tick_arrays, ticks, positions, vault, reward_vault>>

-----------------------------------------------------------------------------
SwapProgress == SwapStep \/ SwapCommit \/ SwapFail

PositionNext ==
  \E p \in PositionIds :
    \/ \E range \in PositionRanges : OpenPosition(p, range[1], range[2])
    \/ \E amount \in LiquidityAmounts, timestamp \in Timestamps :
         \/ IncreaseLiquidity(p, amount, timestamp)
         \/ DecreaseLiquidity(p, amount, timestamp)
    \/ \E timestamp \in Timestamps : UpdateFeesAndRewards(p, timestamp)
    \/ CollectFees(p)
    \/ \E i \in RewardIndex : CollectReward(p, i)
    \/ ClosePosition(p)

RewardNext ==
  \E i \in RewardIndex :
    \/ InitializeReward(i)
    \/ \E amount \in RewardDeposits : DepositReward(i, amount)
    \/ \E e \in EmissionRates, timestamp \in Timestamps : SetRewardEmissions(i, e, timestamp)

ConfigNext ==
  \/ \E flag \in EnableFlags : SetEnableFlag(flag)
  \/ \E rate \in FeeRates : SetFeeRate(rate)
  \/ \E rate \in ProtocolFeeRates : SetProtocolFeeRate(rate)

Next ==
  \/ \E start \in MIN_ARRAY_START .. MAX_TICK_INDEX : InitializeTickArray(start)
  \/ PositionNext
  \/ RewardNext
  \/ ConfigNext
  \/ CollectProtocolFees
  \/ \E r \in SwapRequests, timestamp \in Timestamps : SwapBegin(r, timestamp)
  \/ SwapProgress

Spec == Init /\ [][Next]_vars

\* A transaction that has started runs to its end.
FairSpec == Spec /\ WF_vars(SwapProgress)
=============================================================================
