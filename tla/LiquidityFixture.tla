---------------------------- MODULE LiquidityFixture ----------------------------
(***************************************************************************)
(* One position with the pool and the two ticks it refers to, as the test  *)
(* fixture of the liquidity manager holds them                             *)
(* (util/test_utils/liquidity_test_fixture.rs), under every sequence of    *)
(* the fixture's operations.  The ticks may carry other positions' share   *)
(* too, and every accumulator may start anywhere in its u128, so that it   *)
(* wraps.                                                                  *)
(***************************************************************************)
EXTENDS TickManager

CONSTANTS
  (* the fixture's ticks *)
  TICK_LOWER_INDEX, TICK_UPPER_INDEX, BELOW_LOWER_TICK_INDEX, ABOVE_UPPER_TICK_INDEX,
  (* what the operations are called with *)
  StartGrowths, Emissions, WhirlpoolLiquidities, Grosses, LiquidityDeltas, FeeIncrements, Seconds,
  MaxOps                   \* bound: operations of a behaviour

ASSUME FixtureAssumption ==
  /\ TICK_LOWER_INDEX \in Int /\ TICK_UPPER_INDEX \in Int
  /\ BELOW_LOWER_TICK_INDEX \in Int /\ ABOVE_UPPER_TICK_INDEX \in Int
  /\ BELOW_LOWER_TICK_INDEX < TICK_LOWER_INDEX /\ TICK_LOWER_INDEX <= 0
  /\ 0 < TICK_UPPER_INDEX /\ TICK_UPPER_INDEX <= ABOVE_UPPER_TICK_INDEX
  /\ StartGrowths \subseteq U128 /\ Emissions \subseteq U128
  /\ WhirlpoolLiquidities \subseteq U128 /\ Grosses \subseteq U128
  /\ LiquidityDeltas \subseteq Int /\ FeeIncrements \subseteq U128 /\ Seconds \subseteq U64
  /\ MaxOps \in Nat

VARIABLES whirlpool, position, tick_lower, tick_upper, ops

fixture == <<whirlpool, position, tick_lower, tick_upper>>
vars    == <<fixture, ops>>

CurrIndex ==
  [Below |-> BELOW_LOWER_TICK_INDEX, Inside |-> 0, Above |-> ABOVE_UPPER_TICK_INDEX]

create_whirlpool_reward_infos(emissions_per_second, growth_global) ==
  [i \in RewardIndex |-> [initialized |-> TRUE, emissions_per_second_x64 |-> emissions_per_second,
                          growth_global_x64 |-> growth_global]]

PoolWith(index, liquidity, a, b, reward_infos) ==
  [tick_current_index |-> index, liquidity |-> liquidity,
   fee_growth_global |-> [x \in Token |-> IF x = "a" THEN a ELSE b],
   reward_infos |-> reward_infos, reward_last_updated_timestamp |-> 0]

PositionWith(liquidity) ==
  [liquidity |-> liquidity,
   fee_growth_checkpoint |-> [x \in Token |-> 0], fee_owed |-> [x \in Token |-> 0],
   growth_inside_checkpoint |-> [i \in RewardIndex |-> 0], amount_owed |-> [i \in RewardIndex |-> 0]]

TickWith(gross, net, a, b, reward) ==
  [initialized |-> gross > 0, liquidity_gross |-> gross, liquidity_net |-> net,
   fee_growth_outside |-> [x \in Token |-> IF x = "a" THEN a ELSE b],
   reward_growths_outside |-> [i \in RewardIndex |-> reward]]

\* The fixture's position is new; the tests also set the growth outside ticks
\* that are initialized.  Rewards start where token b does.
Init ==
  /\ \E loc \in DOMAIN CurrIndex, liquidity \in WhirlpoolLiquidities,
        a \in StartGrowths, b \in StartGrowths, e \in Emissions :
       whirlpool = PoolWith(CurrIndex[loc], liquidity, a, b, create_whirlpool_reward_infos(e, b))
  /\ position = PositionWith(0)
  /\ \E gross \in Grosses, g \in StartGrowths :
       tick_lower = IF gross = 0 THEN DefaultTick ELSE TickWith(gross, gross, g, g, g)
  /\ \E gross \in Grosses, g \in StartGrowths :
       tick_upper = IF gross = 0 THEN DefaultTick ELSE TickWith(gross, -gross, g, 0, g)
  /\ ops = 0

-----------------------------------------------------------------------------
(* _calculate_modify_liquidity, and apply_update with what it returns *)

RewardInfosAt(timestamp) ==
  next_whirlpool_reward_infos(whirlpool.reward_infos, whirlpool.liquidity,
                              whirlpool.reward_last_updated_timestamp, timestamp)

NextLiquidity(delta) ==
  next_whirlpool_liquidity(whirlpool.liquidity, whirlpool.tick_current_index,
                           TICK_LOWER_INDEX, TICK_UPPER_INDEX, delta)

FeeGrowthsInside ==
  next_fee_growths_inside(whirlpool.tick_current_index, tick_lower, TICK_LOWER_INDEX,
                          tick_upper, TICK_UPPER_INDEX, whirlpool.fee_growth_global)

\* Mutant: the rewards that a change brings forward are not seen by it.
RewardGrowthsStale(reward_infos) ==
  next_reward_growths_inside(whirlpool.tick_current_index, tick_lower, TICK_LOWER_INDEX,
                             tick_upper, TICK_UPPER_INDEX, whirlpool.reward_infos)

RewardGrowthsInside(reward_infos) ==
  next_reward_growths_inside(whirlpool.tick_current_index, tick_lower, TICK_LOWER_INDEX,
                             tick_upper, TICK_UPPER_INDEX, reward_infos)

UpdatedTick(tick, tick_index, delta, timestamp, is_upper_tick) ==
  next_tick_modify_liquidity_update(tick, tick_index, whirlpool.tick_current_index,
    whirlpool.fee_growth_global, RewardInfosAt(timestamp), delta, is_upper_tick)

ModifyError(delta, timestamp) ==
  IF delta = 0 /\ position.liquidity = 0 THEN "LiquidityZero"
  ELSE IF timestamp < whirlpool.reward_last_updated_timestamp THEN "InvalidTimestamp"
  ELSE IF \/ NextLiquidity(delta) = Err
          \/ TickUpdateFails(tick_lower, delta, FALSE) \/ TickUpdateFails(tick_upper, delta, TRUE)
          \/ add_liquidity_delta(position.liquidity, delta) = Err
       THEN "LiquidityUnderflow"
  ELSE "none"

ModifyLiquidity(delta, timestamp) ==
  /\ ModifyError(delta, timestamp) = "none"
  /\ whirlpool' = [whirlpool EXCEPT !.liquidity = NextLiquidity(delta),
                                    !.reward_infos = RewardInfosAt(timestamp),
                                    !.reward_last_updated_timestamp = timestamp]
  /\ position' = next_position_modify_liquidity_update(position, delta, FeeGrowthsInside,
                   RewardGrowthsInside(RewardInfosAt(timestamp)))
  /\ tick_lower' = UpdatedTick(tick_lower, TICK_LOWER_INDEX, delta, timestamp, FALSE)
  /\ tick_upper' = UpdatedTick(tick_upper, TICK_UPPER_INDEX, delta, timestamp, TRUE)

-----------------------------------------------------------------------------
(* The fixture's other operations *)

increment_whirlpool_fee_growths(a, b) ==
  /\ whirlpool' = [whirlpool EXCEPT !.fee_growth_global =
       [x \in Token |-> WrapU128(@[x] + IF x = "a" THEN a ELSE b)]]
  /\ UNCHANGED <<position, tick_lower, tick_upper>>

increment_whirlpool_reward_growths_by_time(seconds) ==
  LET next_timestamp == whirlpool.reward_last_updated_timestamp + seconds
  IN  /\ whirlpool' = [whirlpool EXCEPT !.reward_infos = RewardInfosAt(next_timestamp),
                                        !.reward_last_updated_timestamp = next_timestamp]
      /\ UNCHANGED <<position, tick_lower, tick_upper>>

Crossed(tick) ==
  next_tick_cross_update(tick, whirlpool.fee_growth_global, whirlpool.reward_infos)

\* Crossing to the right adds the tick's net liquidity, to the left takes it.
LiquidityAcross(tick, direction) ==
  add_liquidity_delta(whirlpool.liquidity,
                      IF direction = "Left" THEN -tick.liquidity_net ELSE tick.liquidity_net)

MovePrice(tick, direction, index) ==
  /\ LiquidityAcross(tick, direction) # Err
  /\ whirlpool' = [whirlpool EXCEPT !.liquidity = LiquidityAcross(tick, direction),
                                    !.tick_current_index = index]
  /\ UNCHANGED position

CrossLower(direction) ==
  /\ MovePrice(tick_lower, direction, CurrIndex[IF direction = "Right" THEN "Inside" ELSE "Below"])
  /\ tick_lower' = Crossed(tick_lower)
  /\ UNCHANGED tick_upper

CrossUpper(direction) ==
  /\ MovePrice(tick_upper, direction, CurrIndex[IF direction = "Right" THEN "Above" ELSE "Inside"])
  /\ tick_upper' = Crossed(tick_upper)
  /\ UNCHANGED tick_lower

-----------------------------------------------------------------------------
(* Every sequence of operations.  A tick is crossed from where the price is; *)
(* the ticks' share of other positions stays.                                *)

At(loc) == whirlpool.tick_current_index = CurrIndex[loc]

\* Nobody takes more from a tick than what this position put there.
ModifyPosition ==
  \E delta \in LiquidityDeltas, seconds \in Seconds :
    ModifyLiquidity(delta, whirlpool.reward_last_updated_timestamp + seconds)

AccrueFees == \E a, b \in FeeIncrements : increment_whirlpool_fee_growths(a, b)

AccrueRewards ==
  \E seconds \in Seconds \ {0} : increment_whirlpool_reward_growths_by_time(seconds)

CrossATick ==
  \/ At("Below") /\ CrossLower("Right")
  \/ At("Inside") /\ CrossLower("Left")
  \/ At("Inside") /\ CrossUpper("Right")
  \/ At("Above") /\ CrossUpper("Left")

Next ==
  /\ ops < MaxOps
  /\ ops' = ops + 1
  /\ ModifyPosition \/ AccrueFees \/ AccrueRewards \/ CrossATick

Spec == Init /\ [][Next]_vars

-----------------------------------------------------------------------------
(* Properties *)

TypeOK ==
  /\ whirlpool \in [tick_current_index : Int, liquidity : U128, fee_growth_global : [Token -> U128],
                    reward_infos : [RewardIndex -> WhirlpoolRewardInfo],
                    reward_last_updated_timestamp : Nat]
  /\ position \in [liquidity : U128,
                   fee_growth_checkpoint : [Token -> U128], fee_owed : [Token -> U64],
                   growth_inside_checkpoint : [RewardIndex -> U128],
                   amount_owed : [RewardIndex -> U64]]
  /\ tick_lower \in Tick /\ tick_upper \in Tick
  /\ ops \in Nat

InRange ==
  TICK_LOWER_INDEX <= whirlpool.tick_current_index /\ whirlpool.tick_current_index < TICK_UPPER_INDEX

\* What the growth inside the range has moved since the checkpoint.
Pending(growths_inside, checkpoint) ==
  [x \in DOMAIN growths_inside |->
     IF position.liquidity = 0 THEN 0 ELSE WrapU128(growths_inside[x] - checkpoint[x])]

Fees == INSTANCE RangeAccounting WITH
  Accumulators <- Token,
  growth       <- whirlpool.fee_growth_global,
  inside       <- InRange,
  liquidity    <- position.liquidity,
  pending      <- Pending(FeeGrowthsInside, position.fee_growth_checkpoint),
  owed         <- position.fee_owed

Rewards == INSTANCE RangeAccounting WITH
  Accumulators <- RewardIndex,
  growth       <- [i \in RewardIndex |-> whirlpool.reward_infos[i].growth_global_x64],
  inside       <- InRange,
  liquidity    <- position.liquidity,
  pending      <- Pending(RewardGrowthsInside(whirlpool.reward_infos), position.growth_inside_checkpoint),
  owed         <- position.amount_owed

\* Growth outside ticks, growth inside ranges and checkpoints amount to this: a
\* position is paid what accrued while the price was in its range, whenever its
\* ticks were initialized, whoever else uses them, however often they are
\* crossed, and although each of these numbers wraps (tick_manager.rs:94-188,
\* position_manager.rs:16-33).
FeesPaidAsAccrued == Fees!Spec

\* The same for rewards, which advance by themselves when a position is changed
\* (liquidity_manager.rs:101).
RewardsPaidAsAccrued == Rewards!Spec
=============================================================================
